---- MODULE Spec2Model ----
(***************************************************************************)
(* Model of the wsforge connection runtime and dispatch pipeline:          *)
(*   wsforge-core/src/connection.rs  Connection, ConnectionManager,        *)
(*                                   handle_websocket                      *)
(*   wsforge-core/src/router.rs      Router::handle_websocket_connection,  *)
(*                                   Router::handle_message                *)
(*   wsforge-core/src/handler.rs     impl_handler!, IntoResponse           *)
(*   wsforge-core/src/message.rs     Message                               *)
(* Strings are modelled as tuples of one-character strings so that prefix  *)
(* tests and splitting are computed, not assumed.                          *)
(***************************************************************************)
EXTENDS Integers, Sequences, FiniteSets, TLC

\* ------------------------------------------------------------------ bounds
MaxConn == 2          \* handshakes that complete (connection ids conn_0..)
MaxFrames == 2        \* frames the read loops take from the sockets, in total
MaxBroadcasts == 1    \* broadcast calls made by producers
MaxDirect == 1        \* sends made through a Connection clone kept by user code
MaxTargeted == 2      \* broadcast_except and broadcast_to calls made by producers
MaxIdList == 2        \* length of the id slice handed to broadcast_to
MaxMw == 3            \* middlewares layered on a chain
MaxPath == 3          \* segments of the path of an HTTP request line
MaxHeader == 3        \* tokens of the peeked request header
MaxPayload == 3       \* bytes of the payload of a converted Message
MaxRegistryOps == 1   \* frames read and producer calls made while the registry is watched
MaxHs == 3            \* handshakes in progress at the same time, over all routers
MaxParams == 3        \* extractor parameters of a handler (the source allows 0 to 8)
MaxHandles == 3       \* AppState handles: the router's and the clones made of it

Ids == 0 .. (MaxConn - 1)
None == <<"None">>            \* Option::None of a string or of a handler
NoMsg == [type |-> "None"]    \* Option::None of a Message or of a record

\* ---------------------------------------------------------------- messages
\* message.rs: struct Message { data, msg_type }
Msg(t, d) == [type |-> t, data |-> d]
Text(d) == Msg("Text", d)
Binary(d) == Msg("Binary", d)
Ping(d) == Msg("Ping", d)
Pong(d) == Msg("Pong", d)
Close == Msg("Close", <<>>)

\* std::str::from_utf8(data).is_ok(): "FF" stands for a byte that no UTF-8
\* sequence contains, every other element for a well-formed character
valid_utf8(d) == \A j \in 1 .. Len(d) : d[j] # "FF"

\* Message::as_text 535-541: Some(text) only for Text messages that decode
as_text(m) == IF m.type = "Text" /\ valid_utf8(m.data) THEN m.data ELSE None

\* String::from_utf8_lossy: each ill-formed byte becomes U+FFFD
from_utf8_lossy(d) == [j \in 1 .. Len(d) |-> IF d[j] = "FF" THEN "FFFD" ELSE d[j]]

\* message.rs Message::into_tungstenite 370-380: Text carries a String, the
\* other kinds the bytes, Close no close frame
into_tungstenite(m) ==
    CASE m.type = "Text" -> [kind |-> "Text", payload |-> from_utf8_lossy(m.data)]
      [] m.type = "Close" -> [kind |-> "Close", payload |-> None]
      [] OTHER -> [kind |-> m.type, payload |-> m.data]

\* message.rs Message::from_tungstenite 403-412 with text 240-246 (String::
\* into_bytes), binary, ping, pong, close
from_tungstenite(w) ==
    CASE w.kind = "Close" -> Close
      [] w.kind = "Frame" -> Binary(<<>>)
      [] OTHER -> Msg(w.kind, w.payload)

\* str::starts_with(ch)
starts_with(s, ch) == Len(s) >= 1 /\ s[1] = ch

\* position of the first character of s that is in the set chars, 0 if none
FirstIn(s, chars) ==
    IF \E i \in 1 .. Len(s) : s[i] \in chars
    THEN CHOOSE i \in 1 .. Len(s) : s[i] \in chars /\ \A j \in 1 .. (i - 1) : s[j] \notin chars
    ELSE 0

\* str::split_once(' ') as used by handle_message: the part before the first
\* space, or None when the text holds no space
split_once_head(s) ==
    LET p == FirstIn(s, {" "})
    IN  IF p = 0 THEN None ELSE SubSeq(s, 1, p - 1)

\* error.rs: Display of the Error variants (thiserror attributes)
Err(kind, detail) == [kind |-> kind, detail |-> detail]
Display(e) ==
    CASE e.kind = "Handler" -> <<"Handler error: ">> \o e.detail
      [] e.kind = "Extractor" -> <<"Extractor error: ">> \o e.detail
      [] e.kind = "Custom" -> <<"Custom error: ">> \o e.detail
      [] e.kind = "ConnectionNotFound" -> <<"Connection not found: ">> \o e.detail
      [] e.kind = "InvalidMessage" -> <<"Invalid message format">>

\* mutant of ErrorReply: the display form alone, without the "Error: " prefix
ErrorReplyBare(e) == Text(Display(e))

\* handler.rs: impl IntoResponse for Result<T>, Err arm
ErrorReply(e) == Text(<<"Error: ">> \o Display(e))

\* handler.rs impl_handler! Handler::call: the extractors run first and `?`
\* returns their error; otherwise the body's value goes through into_response
\* (IntoResponse for Result<T>: Ok(resp) -> its response, Err(e) -> error reply).
\* beh names what the user's handler does with the message:
\*   "noextract"  an extractor of the handler fails (State<T> not stored)
\*   "fail"       the body returns Err(Error::handler("boom"))
\*   "echo"       the body returns Ok(message)
\*   "silent"     the body returns Ok(())
Behaviours == {"noextract", "fail", "echo", "silent"}
ResOk(resp) == [ok |-> TRUE, resp |-> resp]
ResErr(e) == [ok |-> FALSE, err |-> e]
extract(beh) ==
    IF beh = "noextract" THEN ResErr(Err("Extractor", <<"State not found">>)) ELSE ResOk(NoMsg)
into_response(beh, m) ==
    CASE beh = "fail" -> ResOk(ErrorReply(Err("Handler", <<"boom">>)))
      [] beh = "echo" -> ResOk(m)
      [] OTHER -> ResOk(NoMsg)

\* ------------------------------------------------------------ route table
\* Router.routes / Router.default_handler, fixed before listen
RouteKeys == { <<"/", "c">>, <<"/", "s">> }
Route(k) == <<"route", k>>
Default == <<"default">>

\* router.rs handle_message, handler selection: the handler to call, or None
SelectHandler(routes, hasDefault, m) ==
    LET text == as_text(m)
        byRoute ==
            IF text # None /\ starts_with(text, "/")
            THEN LET head == split_once_head(text)
                     key == IF head # None THEN head ELSE text
                 IN  IF key \in routes THEN Route(key) ELSE None
            ELSE None
    IN  IF byRoute # None THEN byRoute
        ELSE IF hasDefault THEN Default ELSE None

\* --------------------------------------------------------------- channel
\* tokio mpsc::UnboundedSender::send as used by Connection::send: appends at
\* the tail while the receiver is alive, fails otherwise
send(q, alive, e) ==
    IF alive THEN [ok |-> TRUE, q |-> Append(q, e)] ELSE [ok |-> FALSE, q |-> q]

\* mutant of SendReady: a bounded channel of capacity one, whose send waits
SendReadyBounded(q) == Len(q) < 1

\* connection.rs 758: the channel is mpsc::unbounded_channel, so a send never
\* waits for room, whatever the queue holds
SendReady(q) == TRUE

\* mutant of recv: the newest message is taken first
recvLast(q) == [m |-> q[Len(q)], q |-> SubSeq(q, 1, Len(q) - 1)]

\* UnboundedReceiver::recv: the message at the head
recv(q) == [m |-> Head(q), q |-> Tail(q)]

\* ------------------------------------------------------- connection ids
\* mutant of fetch_add: the value is read and left as it is
fetch_keep(v, d) == [prev |-> v, val |-> v]

\* AtomicU64::fetch_add(d, SeqCst): one indivisible step that returns the
\* previous value. The bounds keep the value far below 2^64.
fetch_add(v, d) == [prev |-> v, val |-> v + d]

\* format!("{}", n) of an unsigned integer
RECURSIVE Decimal(_)
Decimal(n) ==
    LET digit == <<"0", "1", "2", "3", "4", "5", "6", "7", "8", "9">>[(n % 10) + 1]
    IN  IF n < 10 THEN <<digit>> ELSE Append(Decimal(n \div 10), digit)

\* router.rs generate_connection_id 864: format!("conn_{}", n)
format_conn(n) == <<"c", "o", "n", "n", "_">> \o Decimal(n)

\* ------------------------------------------------------------------ state
VARIABLES
    counter,     \* router.rs generate_connection_id: static COUNTER
    registry,    \* ConnectionManager.connections (the ids present)
    sess,        \* position of handle_websocket for each id
    wpc,         \* position of the write task
    wcur,        \* message the write task took from the queue and is writing
    rpc,         \* position of the read task
    queue,       \* outbound channel of each connection
    wire,        \* messages written to the socket, in order
    tasks,       \* dispatch tasks spawned by on_message, in read order
    held,        \* user code keeps a clone of the Connection
    nframes,     \* frames handed to on_message so far
    ndirect,     \* sends made through kept clones so far
    routes,      \* keys registered with Router::route
    hasDefault,  \* Router.default_handler is Some
    bc,          \* the broadcast in progress
    nbcast,      \* broadcasts started so far
    nsent,       \* history: entries accepted by each queue so far
    hooks,       \* history: how often each hook was invoked for each id, and how
                 \* many entries the queue had accepted when the read loop ended
    lastDirect,  \* history: the latest send through a kept clone and its Result
    mw,          \* a MiddlewareChain and the execution of it in progress
    io,          \* the latest accepted TCP connection: what arrived, what was answered
    state,       \* Router.state (an AppState), whether listen ran, the latest call on it
    hs           \* handshakes of all Router instances of the process and the ids they got

\* the components that the session runtime does not touch
aside == <<mw, io, state, hs>>

vars == <<counter, registry, sess, wpc, wcur, rpc, queue, wire, tasks, held,
          nframes, ndirect, routes, hasDefault, bc, nbcast, nsent, hooks,
          lastDirect, aside>>

\* middleware/mod.rs MiddlewareChain::new 428-433: no middleware, no handler
NoChain == [pc |-> "build", middlewares |-> <<>>, handler |-> FALSE, index |-> 0,
            stack |-> <<>>, log |-> <<>>, resp |-> None]

\* state.rs AppState::new 271-275: an empty map; nothing was called yet
NoCall == [op |-> "new", type |-> "", arc |-> None, ret |-> None]
NoState == [data |-> <<>>, listening |-> FALSE, call |-> NoCall]

\* no TCP connection was accepted yet
NoHandshakes == [h \in 1 .. MaxHs |-> [pc |-> "idle", router |-> "", n |-> 0, id |-> None]]

\* frames a client can put on the socket
InFrames == { Text(<<"/", "c", " ", "x">>), Binary(<<"b">>) }

\* mutant of RxAlive: a send is refused once the connection left the registry
RxAliveRegistered(c) == c \in registry /\ wpc[c] # "ended"

\* the receiver half exists from channel creation until the write task ends
RxAlive(c) == sess[c] \notin {"none", "created"} /\ wpc[c] # "ended"

\* a dispatch task holds a clone of the Connection from lookup to completion
TaskHolds(c) == \E i \in 1 .. Len(tasks[c]) : tasks[c][i].pc \in {"ready", "running"}

\* some UnboundedSender of c's channel is alive
SenderAlive(c) == c \in registry \/ held[c] \/ TaskHolds(c)

NoBroadcast == [pc |-> "idle", k |-> 0, pending |-> {}, start |-> {}, res |-> <<>>]

Init ==
    /\ counter = 0
    /\ registry = {}
    /\ sess = [c \in Ids |-> "none"]
    /\ wpc = [c \in Ids |-> "idle"]
    /\ wcur = [c \in Ids |-> NoMsg]
    /\ rpc = [c \in Ids |-> "idle"]
    /\ queue = [c \in Ids |-> <<>>]
    /\ wire = [c \in Ids |-> <<>>]
    /\ tasks = [c \in Ids |-> <<>>]
    /\ held = [c \in Ids |-> FALSE]
    /\ nframes = 0
    /\ ndirect = 0
    /\ routes = RouteKeys
    /\ hasDefault \in BOOLEAN
    /\ bc = NoBroadcast
    /\ nbcast = 0
    /\ nsent = [c \in Ids |-> 0]
    /\ hooks = [c \in Ids |-> [connects |-> 0, disconnects |-> 0, endsent |-> 0]]
    /\ lastDirect = NoMsg
    /\ mw = NoChain
    /\ io = NoMsg
    /\ state = NoState
    /\ hs = NoHandshakes

\* ------------------------------------------------------ ConnectionManager
\* connection.rs ConnectionManager::add 434-440: DashMap::insert under the id
add(reg, c) == reg \cup {c}

\* mutant of remove: the map is emptied
removeAll(reg, c) == {}

\* connection.rs ConnectionManager::remove 458-463: DashMap::remove of the id,
\* which leaves the map as it is when the id is absent
remove(reg, c) == reg \ {c}

\* ConnectionManager::get(id).is_some() and ConnectionManager::count()
get(c) == c \in registry
count == Cardinality(registry)

\* ------------------------------------------------------- Connection::send
\* an entry of a queue: the Message, and for the history what produced it and
\* its ticket (how many entries the queue had accepted, this one included)
Entry(m, src) == [m |-> m, src |-> src]
Ticketed(e, n) == [m |-> e.m, src |-> e.src, n |-> n]

\* connection.rs Connection::send 225-229 on any clone of c's Connection: one
\* entry e offered to c's queue; SendOk is the Result it returns
SendOk(c, e) == send(queue[c], RxAlive(c), Ticketed(e, nsent[c] + 1)).ok
Enqueue(c, e) ==
    LET r == send(queue[c], RxAlive(c), Ticketed(e, nsent[c] + 1))
    IN  /\ SendReady(queue[c])
        /\ queue' = [queue EXCEPT ![c] = r.q]
        /\ nsent' = IF r.ok THEN [nsent EXCEPT ![c] = @ + 1] ELSE nsent

\* ------------------------------------------------------ session runtime
\* router.rs handle_websocket_connection 752-753: accept_async succeeded and
\* generate_connection_id took the next value of COUNTER (fetch_add)
Handshake ==
    /\ counter < MaxConn
    /\ sess' = [sess EXCEPT ![fetch_add(counter, 1).prev] = "created"]
    /\ counter' = fetch_add(counter, 1).val
    /\ UNCHANGED <<registry, wpc, wcur, rpc, queue, wire, tasks, held, nframes, ndirect,
                   routes, hasDefault, bc, nbcast, nsent, hooks,
                   lastDirect, aside>>

\* mutant of Add: the session goes on without the insertion
AddNoInsert(c) ==
    /\ sess[c] = "created"
    /\ sess' = [sess EXCEPT ![c] = "added"]
    /\ UNCHANGED <<counter, registry, wpc, wcur, rpc, queue, wire, tasks, held, nframes,
                   ndirect, routes, hasDefault, bc, nbcast, nsent, hooks, lastDirect, aside>>

\* mutant of Add: the read task is spawned before on_connect is called
AddSpawnsReader(c) ==
    /\ sess[c] = "created"
    /\ registry' = add(registry, c)
    /\ sess' = [sess EXCEPT ![c] = "added"]
    /\ rpc' = [rpc EXCEPT ![c] = "read"]
    /\ UNCHANGED <<counter, wpc, wcur, queue, wire, tasks, held, nframes, ndirect,
                   routes, hasDefault, bc, nbcast, nsent, hooks, lastDirect, aside>>

\* connection.rs 757-764: handle_websocket splits the stream, creates the
\* channel, builds the Connection and calls manager.add (ConnectionManager::add)
Add(c) ==
    /\ sess[c] = "created"
    /\ registry' = add(registry, c)
    /\ sess' = [sess EXCEPT ![c] = "added"]
    /\ UNCHANGED <<counter, wpc, wcur, rpc, queue, wire, tasks, held, nframes, ndirect,
                   routes, hasDefault, bc, nbcast, nsent, hooks,
                   lastDirect, aside>>

\* connection.rs 774-819: on_connect(conn_id), then tokio::spawn of the write
\* task and of the read task. What the user's hook sends or broadcasts is
\* covered by the producer actions below, which may run at any time.
OnConnect(c) ==
    /\ sess[c] = "added"
    /\ sess' = [sess EXCEPT ![c] = "running"]
    /\ hooks' = [hooks EXCEPT ![c].connects = @ + 1]
    /\ wpc' = [wpc EXCEPT ![c] = "recv"]
    /\ rpc' = [rpc EXCEPT ![c] = "read"]
    /\ UNCHANGED <<counter, registry, wcur, queue, wire, tasks, held, nframes,
                   ndirect, routes, hasDefault, bc, nbcast, nsent,
                   lastDirect, aside>>

\* mutant of WriteRecv: the write task is cancelled at deregistration and
\* takes nothing more from the queue
WriteRecvUntilRemoved(c) ==
    /\ wpc[c] = "recv"
    /\ c \in registry
    /\ queue[c] # <<>>
    /\ LET r == recv(queue[c])
       IN  /\ wcur' = [wcur EXCEPT ![c] = r.m]
           /\ queue' = [queue EXCEPT ![c] = r.q]
    /\ wpc' = [wpc EXCEPT ![c] = "write"]
    /\ UNCHANGED <<counter, registry, sess, rpc, wire, tasks, held, nframes, ndirect,
                   routes, hasDefault, bc, nbcast, nsent, hooks, lastDirect, aside>>

\* write task, connection.rs 781: rx.recv().await yields Some(message)
WriteRecv(c) ==
    /\ wpc[c] = "recv"
    /\ queue[c] # <<>>
    /\ LET r == recv(queue[c])
       IN  /\ wcur' = [wcur EXCEPT ![c] = r.m]
           /\ queue' = [queue EXCEPT ![c] = r.q]
    /\ wpc' = [wpc EXCEPT ![c] = "write"]
    /\ UNCHANGED <<counter, registry, sess, rpc, wire, tasks, held, nframes, ndirect,
                   routes, hasDefault, bc, nbcast, nsent, hooks,
                   lastDirect, aside>>

\* write task, connection.rs 781: rx.recv().await yields None (the queue is
\* empty and every sender is dropped); the task ends and drops rx
WriteClosed(c) ==
    /\ wpc[c] = "recv"
    /\ queue[c] = <<>>
    /\ ~SenderAlive(c)
    /\ wpc' = [wpc EXCEPT ![c] = "ended"]
    /\ UNCHANGED <<counter, registry, sess, wcur, rpc, queue, wire, tasks, held, nframes,
                   ndirect, routes, hasDefault, bc, nbcast, nsent, hooks,
                   lastDirect, aside>>

\* write task, connection.rs 784-790: ws_sender.send(msg).await returned Ok
WriteOk(c) ==
    /\ wpc[c] = "write"
    /\ wire' = [wire EXCEPT ![c] = Append(@, wcur[c])]
    /\ wcur' = [wcur EXCEPT ![c] = NoMsg]
    /\ wpc' = [wpc EXCEPT ![c] = "recv"]
    /\ UNCHANGED <<counter, registry, sess, rpc, queue, tasks, held, nframes, ndirect,
                   routes, hasDefault, bc, nbcast, nsent, hooks,
                   lastDirect, aside>>

\* write task, connection.rs 785-788: ws_sender.send(msg).await returned Err:
\* break; the task ends and drops rx with whatever is still queued
WriteErr(c) ==
    /\ wpc[c] = "write"
    /\ wcur' = [wcur EXCEPT ![c] = NoMsg]
    /\ wpc' = [wpc EXCEPT ![c] = "ended"]
    /\ queue' = [queue EXCEPT ![c] = <<>>]
    /\ UNCHANGED <<counter, registry, sess, rpc, wire, tasks, held, nframes, ndirect,
                   routes, hasDefault, bc, nbcast, nsent, hooks,
                   lastDirect, aside>>

\* a dispatch task as spawned by the on_message closure (router.rs 758-765)
NewTask(m) == [msg |-> m, pc |-> "spawned", handler |-> None, beh |-> "silent",
               result |-> "pending"]

\* read task, connection.rs 801-811: a frame that is not Close is converted
\* and handed to on_message, which spawns the dispatch task
ReadFrame(c, f) ==
    /\ rpc[c] = "read"
    /\ nframes < MaxFrames
    /\ nframes' = nframes + 1
    /\ tasks' = [tasks EXCEPT ![c] = Append(@, NewTask(f))]
    /\ UNCHANGED <<counter, registry, sess, wpc, wcur, rpc, queue, wire, held, ndirect,
                   routes, hasDefault, bc, nbcast, nsent, hooks,
                   lastDirect, aside>>

\* read task, connection.rs 801-817: a transport or framing error or the end
\* of the stream ends the loop, and so does a Close frame (see ReadNext)
ReadEnd(c) ==
    /\ rpc[c] = "read"
    /\ rpc' = [rpc EXCEPT ![c] = "ended"]
    /\ hooks' = [hooks EXCEPT ![c].endsent = nsent[c]]
    /\ UNCHANGED <<counter, registry, sess, wpc, wcur, queue, wire, tasks, held, nframes,
                   ndirect, routes, hasDefault, bc, nbcast, nsent,
                   lastDirect, aside>>

\* what the framing library yields for the frames a client can send
SocketFrames ==
    {into_tungstenite(m) : m \in InFrames} \cup {[kind |-> "Close", payload |-> None]}

\* tungstenite Message::is_close
is_close(w) == w.kind = "Close"

\* mutant of ReadNext: on_message is awaited until the handlers have finished
ReadNextAwaits(c, w) ==
    /\ \A i \in 1 .. Len(tasks[c]) : tasks[c][i].pc = "done"
    /\ IF is_close(w) THEN ReadEnd(c) ELSE ReadFrame(c, from_tungstenite(w))

\* mutant of ReadNext: a Close frame is handed on like any other frame
ReadNextAny(c, w) == ReadFrame(c, from_tungstenite(w))

\* read task, connection.rs 801-811: ws_receiver.next() yielded Ok(msg); a
\* Close frame breaks out of the loop, any other frame is converted and
\* handed to on_message, which returns as soon as the task is spawned
ReadNext(c, w) ==
    IF is_close(w) THEN ReadEnd(c) ELSE ReadFrame(c, from_tungstenite(w))

\* mutant of Remove: teardown goes on to the hook without the removal
RemoveKeep(c) ==
    /\ sess[c] = "running"
    /\ wpc[c] = "ended" \/ rpc[c] = "ended"
    /\ sess' = [sess EXCEPT ![c] = "removed"]
    /\ UNCHANGED <<counter, registry, wpc, wcur, rpc, queue, wire, tasks, held, nframes,
                   ndirect, routes, hasDefault, bc, nbcast, nsent, hooks, lastDirect, aside>>

\* connection.rs 822-832: tokio::select! over the two JoinHandles returns when
\* one of the tasks has finished; the other JoinHandle is dropped, which
\* detaches that task and does not abort it. Then manager.remove(&conn_id)
\* (ConnectionManager::remove).
Remove(c) ==
    /\ sess[c] = "running"
    /\ wpc[c] = "ended" \/ rpc[c] = "ended"
    /\ registry' = remove(registry, c)
    /\ sess' = [sess EXCEPT ![c] = "removed"]
    /\ UNCHANGED <<counter, wpc, wcur, rpc, queue, wire, tasks, held, nframes, ndirect,
                   routes, hasDefault, bc, nbcast, nsent, hooks,
                   lastDirect, aside>>

\* connection.rs 833: on_disconnect(conn_id)
OnDisconnect(c) ==
    /\ sess[c] = "removed"
    /\ sess' = [sess EXCEPT ![c] = "done"]
    /\ hooks' = [hooks EXCEPT ![c].disconnects = @ + 1]
    /\ UNCHANGED <<counter, registry, wpc, wcur, rpc, queue, wire, tasks, held, nframes,
                   ndirect, routes, hasDefault, bc, nbcast, nsent,
                   lastDirect, aside>>

\* ------------------------------------------------------------- dispatch
\* handler.rs impl_handler! Handler::call as a whole: Err from an extractor,
\* else the body's response
call(beh, m) == IF extract(beh).ok THEN into_response(beh, m) ELSE extract(beh)

\* mutant of DispatchLookup: the handler is selected without the lookup
DispatchLookupNoCheck(c, i) ==
    /\ i \in 1 .. Len(tasks[c])
    /\ tasks[c][i].pc = "spawned"
    /\ LET h == SelectHandler(routes, hasDefault, tasks[c][i].msg)
       IN  tasks' = [tasks EXCEPT ![c][i] =
                IF h = None THEN [@ EXCEPT !.pc = "done", !.result = "dropped"]
                ELSE [@ EXCEPT !.pc = "ready", !.handler = h]]
    /\ UNCHANGED <<counter, registry, sess, wpc, wcur, rpc, queue, wire, held, nframes,
                   ndirect, routes, hasDefault, bc, nbcast, nsent, hooks, lastDirect, aside>>

\* mutant of DispatchLookup: a miss falls through to a handler all the same
DispatchLookupAlwaysDefault(c, i) ==
    /\ i \in 1 .. Len(tasks[c])
    /\ tasks[c][i].pc = "spawned"
    /\ LET h == SelectHandler(routes, TRUE, tasks[c][i].msg)
       IN  tasks' = [tasks EXCEPT ![c][i] =
                IF c \notin registry THEN [@ EXCEPT !.pc = "done", !.result = "notfound"]
                ELSE [@ EXCEPT !.pc = "ready", !.handler = h]]
    /\ UNCHANGED <<counter, registry, sess, wpc, wcur, rpc, queue, wire, held, nframes,
                   ndirect, routes, hasDefault, bc, nbcast, nsent, hooks, lastDirect, aside>>

\* router.rs handle_message 813-835: look the connection up, abort with
\* ConnectionNotFound when it is absent, else select the handler; with no
\* handler the message is dropped with a warning
DispatchLookup(c, i) ==
    /\ i \in 1 .. Len(tasks[c])
    /\ tasks[c][i].pc = "spawned"
    /\ LET h == SelectHandler(routes, hasDefault, tasks[c][i].msg)
       IN  tasks' = [tasks EXCEPT ![c][i] =
                IF c \notin registry THEN [@ EXCEPT !.pc = "done", !.result = "notfound"]
                ELSE IF h = None THEN [@ EXCEPT !.pc = "done", !.result = "dropped"]
                ELSE [@ EXCEPT !.pc = "ready", !.handler = h]]
    /\ UNCHANGED <<counter, registry, sess, wpc, wcur, rpc, queue, wire, held, nframes,
                   ndirect, routes, hasDefault, bc, nbcast, nsent, hooks,
                   lastDirect, aside>>

\* router.rs 838-840 with handler.rs 484-488: handler.call starts; the
\* extractors run; when one fails call returns Err, which handle_message only
\* logs (router.rs 850-852); otherwise the handler body begins executing
HandlerCall(c, i, beh) ==
    /\ i \in 1 .. Len(tasks[c])
    /\ tasks[c][i].pc = "ready"
    /\ tasks' = [tasks EXCEPT ![c][i] =
            IF call(beh, @.msg).ok
            THEN [@ EXCEPT !.pc = "running", !.beh = beh]
            ELSE [@ EXCEPT !.pc = "done", !.beh = beh, !.result = "callerr"]]
    /\ UNCHANGED <<counter, registry, sess, wpc, wcur, rpc, queue, wire, held, nframes,
                   ndirect, routes, hasDefault, bc, nbcast, nsent, hooks,
                   lastDirect, aside>>

\* mutant of HandlerReturn: the response is put on the queue twice
HandlerReturnTwice(c, i) ==
    /\ i \in 1 .. Len(tasks[c])
    /\ tasks[c][i].pc = "running"
    /\ LET r == call(tasks[c][i].beh, tasks[c][i].msg)
           e == Ticketed(Entry(r.resp, <<"reply", i>>), nsent[c] + 1)
       IN  IF r.resp # NoMsg /\ RxAlive(c)
           THEN /\ queue' = [queue EXCEPT ![c] = @ \o <<e, e>>]
                /\ nsent' = [nsent EXCEPT ![c] = @ + 1]
                /\ tasks' = [tasks EXCEPT ![c][i].pc = "done", ![c][i].result = "replied"]
           ELSE /\ tasks' = [tasks EXCEPT ![c][i].pc = "done",
                                          ![c][i].result = IF r.resp # NoMsg
                                                           THEN "sendfail" ELSE "noreply"]
                /\ UNCHANGED <<queue, nsent>>
    /\ UNCHANGED <<counter, registry, sess, wpc, wcur, rpc, wire, held, nframes,
                   ndirect, routes, hasDefault, bc, nbcast, hooks, lastDirect, aside>>

\* router.rs 842-849 with handler.rs 488-489: the body finished; its value is
\* turned into Ok(Some(response)) or Ok(None); a response is sent on the
\* originating connection and a failed send is only logged
HandlerReturn(c, i) ==
    /\ i \in 1 .. Len(tasks[c])
    /\ tasks[c][i].pc = "running"
    /\ LET r == call(tasks[c][i].beh, tasks[c][i].msg)
       IN  IF r.resp # NoMsg
           THEN /\ Enqueue(c, Entry(r.resp, <<"reply", i>>))
                /\ tasks' = [tasks EXCEPT ![c][i].pc = "done",
                                          ![c][i].result =
                                    IF SendOk(c, Entry(r.resp, <<"reply", i>>))
                                    THEN "replied" ELSE "sendfail"]
           ELSE /\ tasks' = [tasks EXCEPT ![c][i].pc = "done", ![c][i].result = "noreply"]
                /\ UNCHANGED <<queue, nsent>>
    /\ UNCHANGED <<counter, registry, sess, wpc, wcur, rpc, wire, held, nframes,
                   ndirect, routes, hasDefault, bc, nbcast, hooks,
                   lastDirect, aside>>

\* ------------------------------------------------------------ broadcast
\* connection.rs ConnectionManager::broadcast 509-516: the call starts; the
\* DashMap iterator will pass the slot of every id once, in an order the
\* caller does not control
BroadcastBegin ==
    /\ bc.pc = "idle"
    /\ nbcast < MaxBroadcasts
    /\ nbcast' = nbcast + 1
    /\ bc' = [pc |-> "running", k |-> nbcast + 1, pending |-> Ids, start |-> registry,
              res |-> [c \in Ids |-> "none"]]
    /\ UNCHANGED <<counter, registry, sess, wpc, wcur, rpc, queue, wire, tasks, held,
                   nframes, ndirect, routes, hasDefault, nsent, hooks,
                   lastDirect, aside>>

\* mutant of BroadcastStep: a recipient whose send failed is evicted
BroadcastStepEvict(c) ==
    /\ bc.pc = "running"
    /\ c \in bc.pending
    /\ IF c \in registry
       THEN /\ Enqueue(c, Entry(Text(<<"b">>), <<"bcast", bc.k>>))
            /\ bc' = [bc EXCEPT !.pending = @ \ {c},
                                !.res[c] =
                                    IF SendOk(c, Entry(Text(<<"b">>), <<"bcast", bc.k>>))
                                    THEN "ok" ELSE "failed"]
            /\ registry' = IF SendOk(c, Entry(Text(<<"b">>), <<"bcast", bc.k>>))
                           THEN registry ELSE registry \ {c}
       ELSE /\ bc' = [bc EXCEPT !.pending = @ \ {c}, !.res[c] = "absent"]
            /\ UNCHANGED <<queue, nsent, registry>>
    /\ UNCHANGED <<counter, sess, wpc, wcur, rpc, wire, tasks, held,
                   nframes, ndirect, routes, hasDefault, nbcast, hooks, lastDirect, aside>>

\* mutant of BroadcastStep: a failed send ends the iteration
BroadcastStepAbort(c) ==
    /\ bc.pc = "running"
    /\ c \in bc.pending
    /\ IF c \in registry
       THEN /\ Enqueue(c, Entry(Text(<<"b">>), <<"bcast", bc.k>>))
            /\ bc' = IF SendOk(c, Entry(Text(<<"b">>), <<"bcast", bc.k>>))
                     THEN [bc EXCEPT !.pending = @ \ {c}, !.res[c] = "ok"]
                     ELSE [bc EXCEPT !.pending = {}, !.res[c] = "failed"]
       ELSE /\ bc' = [bc EXCEPT !.pending = @ \ {c}, !.res[c] = "absent"]
            /\ UNCHANGED <<queue, nsent>>
    /\ UNCHANGED <<counter, registry, sess, wpc, wcur, rpc, wire, tasks, held,
                   nframes, ndirect, routes, hasDefault, nbcast, hooks, lastDirect, aside>>

\* connection.rs 516-527: the iterator reaches the slot of id c; when c is in
\* the map entry.value().send(message.clone()) is called and the outcome counted
BroadcastStep(c) ==
    /\ bc.pc = "running"
    /\ c \in bc.pending
    /\ IF c \in registry
       THEN /\ Enqueue(c, Entry(Text(<<"b">>), <<"bcast", bc.k>>))
            /\ bc' = [bc EXCEPT !.pending = @ \ {c},
                                !.res[c] =
                                    IF SendOk(c, Entry(Text(<<"b">>), <<"bcast", bc.k>>))
                                    THEN "ok" ELSE "failed"]
       ELSE /\ bc' = [bc EXCEPT !.pending = @ \ {c}, !.res[c] = "absent"]
            /\ UNCHANGED <<queue, nsent>>
    /\ UNCHANGED <<counter, registry, sess, wpc, wcur, rpc, wire, tasks, held,
                   nframes, ndirect, routes, hasDefault, nbcast, hooks,
                   lastDirect, aside>>

\* connection.rs 529-533: the iteration is over and broadcast returns
BroadcastEnd ==
    /\ bc.pc = "running"
    /\ bc.pending = {}
    /\ bc' = NoBroadcast
    /\ UNCHANGED <<counter, registry, sess, wpc, wcur, rpc, queue, wire, tasks, held,
                   nframes, ndirect, routes, hasDefault, nbcast, nsent, hooks,
                   lastDirect, aside>>

\* ----------------------------------------------------- broadcast_except
\* connection.rs ConnectionManager::broadcast_except 551-557: the call starts
\* with except_id x; the debug! arguments (connections.len() - 1) did not
\* panic; the DashMap iterator will pass the slot of every id once
BroadcastExceptBegin(x) ==
    /\ bc.pc = "idle"
    /\ nbcast < MaxTargeted
    /\ nbcast' = nbcast + 1
    /\ bc' = [pc |-> "except", k |-> nbcast + 1, x |-> x, pending |-> Ids,
              start |-> registry, res |-> [c \in Ids |-> "none"]]
    /\ UNCHANGED <<counter, registry, sess, wpc, wcur, rpc, queue, wire, tasks, held,
                   nframes, ndirect, routes, hasDefault, nsent, hooks, lastDirect, aside>>

\* connection.rs 552-556: on an empty map connections.len() - 1 underflows
\* usize; where the debug! arguments are evaluated in a build with overflow
\* checks the call panics before the iteration
BroadcastExceptPanic(x) ==
    /\ bc.pc = "idle"
    /\ nbcast < MaxTargeted
    /\ Cardinality(registry) = 0
    /\ nbcast' = nbcast + 1
    /\ bc' = [pc |-> "panicked", k |-> nbcast + 1, x |-> x, pending |-> {},
              start |-> registry, res |-> [c \in Ids |-> "none"]]
    /\ UNCHANGED <<counter, registry, sess, wpc, wcur, rpc, queue, wire, tasks, held,
                   nframes, ndirect, routes, hasDefault, nsent, hooks, lastDirect, aside>>

\* mutant of BroadcastExceptStep: the key is not compared with except_id
BroadcastExceptStepAll(c) ==
    /\ bc.pc = "except"
    /\ c \in bc.pending
    /\ IF c \in registry
       THEN /\ Enqueue(c, Entry(Text(<<"h", "i">>), <<"except", bc.k>>))
            /\ bc' = [bc EXCEPT !.pending = @ \ {c},
                                !.res[c] =
                                    IF SendOk(c, Entry(Text(<<"h", "i">>), <<"except", bc.k>>))
                                    THEN "ok" ELSE "failed"]
       ELSE /\ bc' = [bc EXCEPT !.pending = @ \ {c}, !.res[c] = "absent"]
            /\ UNCHANGED <<queue, nsent>>
    /\ UNCHANGED <<counter, registry, sess, wpc, wcur, rpc, wire, tasks, held,
                   nframes, ndirect, routes, hasDefault, nbcast, hooks, lastDirect, aside>>

\* mutant of BroadcastExceptStep: the connection passed over is deregistered
BroadcastExceptStepDrops(c) ==
    /\ bc.pc = "except"
    /\ c \in bc.pending
    /\ bc' = [bc EXCEPT !.pending = @ \ {c}, !.res[c] = "skipped"]
    /\ registry' = registry \ {c}
    /\ UNCHANGED <<counter, sess, wpc, wcur, rpc, queue, wire, tasks, held, nframes,
                   ndirect, routes, hasDefault, nbcast, nsent, hooks, lastDirect, aside>>

\* connection.rs 557-563: the iterator reaches the slot of id c; an entry
\* whose key differs from except_id is sent a clone, failures are logged
BroadcastExceptStep(c) ==
    /\ bc.pc = "except"
    /\ c \in bc.pending
    /\ IF c \in registry /\ c # bc.x
       THEN /\ Enqueue(c, Entry(Text(<<"h", "i">>), <<"except", bc.k>>))
            /\ bc' = [bc EXCEPT !.pending = @ \ {c},
                                !.res[c] =
                                    IF SendOk(c, Entry(Text(<<"h", "i">>), <<"except", bc.k>>))
                                    THEN "ok" ELSE "failed"]
       ELSE /\ bc' = [bc EXCEPT !.pending = @ \ {c},
                                !.res[c] = IF c \in registry THEN "skipped" ELSE "absent"]
            /\ UNCHANGED <<queue, nsent>>
    /\ UNCHANGED <<counter, registry, sess, wpc, wcur, rpc, wire, tasks, held,
                   nframes, ndirect, routes, hasDefault, nbcast, hooks, lastDirect, aside>>

\* connection.rs 564: the iteration is over and broadcast_except returns, or
\* the panic has unwound the calling task
BroadcastExceptEnd ==
    /\ bc.pc \in {"except", "panicked"}
    /\ bc.pending = {}
    /\ bc' = NoBroadcast
    /\ UNCHANGED <<counter, registry, sess, wpc, wcur, rpc, queue, wire, tasks, held,
                   nframes, ndirect, routes, hasDefault, nbcast, nsent, hooks,
                   lastDirect, aside>>

\* --------------------------------------------------------- broadcast_to
\* the id slices a caller can hand to broadcast_to: any ids in any order,
\* repeated or not, registered or not
IdLists == UNION { [1 .. n -> Ids] : n \in 0 .. MaxIdList }

\* connection.rs ConnectionManager::broadcast_to 585-586: the call starts
BroadcastToBegin(ids) ==
    /\ bc.pc = "idle"
    /\ nbcast < MaxTargeted
    /\ nbcast' = nbcast + 1
    /\ bc' = [pc |-> "to", k |-> nbcast + 1, ids |-> ids, pending |-> {},
              start |-> registry, res |-> <<>>]
    /\ UNCHANGED <<counter, registry, sess, wpc, wcur, rpc, queue, wire, tasks, held,
                   nframes, ndirect, routes, hasDefault, nsent, hooks, lastDirect, aside>>

\* mutant of BroadcastToStep: the id after the listed one is served instead
BroadcastToStepOther ==
    /\ bc.pc = "to"
    /\ bc.ids # <<>>
    /\ LET c == (Head(bc.ids) + 1) % MaxConn
       IN  IF get(c)
           THEN /\ Enqueue(c, Entry(Text(<<"v">>), <<"to", bc.k>>))
                /\ bc' = [bc EXCEPT !.ids = Tail(@),
                                    !.res = Append(@,
                                        IF SendOk(c, Entry(Text(<<"v">>), <<"to", bc.k>>))
                                        THEN "ok" ELSE "failed")]
           ELSE /\ bc' = [bc EXCEPT !.ids = Tail(@), !.res = Append(@, "absent")]
                /\ UNCHANGED <<queue, nsent>>
    /\ UNCHANGED <<counter, registry, sess, wpc, wcur, rpc, wire, tasks, held,
                   nframes, ndirect, routes, hasDefault, nbcast, hooks, lastDirect, aside>>

\* connection.rs 586-592: the next id of the slice is looked up with get; a
\* connection that is found is sent a clone (a failure is logged), an id that
\* is not found is passed over
BroadcastToStep ==
    /\ bc.pc = "to"
    /\ bc.ids # <<>>
    /\ LET c == Head(bc.ids)
       IN  IF get(c)
           THEN /\ Enqueue(c, Entry(Text(<<"v">>), <<"to", bc.k>>))
                /\ bc' = [bc EXCEPT !.ids = Tail(@),
                                    !.res = Append(@,
                                        IF SendOk(c, Entry(Text(<<"v">>), <<"to", bc.k>>))
                                        THEN "ok" ELSE "failed")]
           ELSE /\ bc' = [bc EXCEPT !.ids = Tail(@), !.res = Append(@, "absent")]
                /\ UNCHANGED <<queue, nsent>>
    /\ UNCHANGED <<counter, registry, sess, wpc, wcur, rpc, wire, tasks, held,
                   nframes, ndirect, routes, hasDefault, nbcast, hooks, lastDirect, aside>>

\* connection.rs 593: the slice is exhausted and broadcast_to returns
BroadcastToEnd ==
    /\ bc.pc = "to"
    /\ bc.ids = <<>>
    /\ bc' = NoBroadcast
    /\ UNCHANGED <<counter, registry, sess, wpc, wcur, rpc, queue, wire, tasks, held,
                   nframes, ndirect, routes, hasDefault, nbcast, nsent, hooks,
                   lastDirect, aside>>

\* ------------------------------------------------- clones kept by user code
\* connection.rs ConnectionManager::get 486-488 with impl Clone for Connection
\* 656-664: user code (a hook, a handler, a background task) keeps the clone
CloneGet(c) ==
    /\ c \in registry
    /\ ~held[c]
    /\ ndirect < MaxDirect
    /\ held' = [held EXCEPT ![c] = TRUE]
    /\ UNCHANGED <<counter, registry, sess, wpc, wcur, rpc, queue, wire, tasks, nframes,
                   ndirect, routes, hasDefault, bc, nbcast, nsent, hooks,
                   lastDirect, aside>>

\* connection.rs Connection::send 225-229 on the kept clone
CloneSend(c) ==
    /\ held[c]
    /\ ndirect < MaxDirect
    /\ ndirect' = ndirect + 1
    /\ Enqueue(c, Entry(Text(<<"d">>), <<"direct", ndirect + 1>>))
    /\ lastDirect' = [conn |-> c,
                      ok |-> SendOk(c, Entry(Text(<<"d">>), <<"direct", ndirect + 1>>))]
    /\ UNCHANGED <<counter, registry, sess, wpc, wcur, rpc, wire, tasks, held, nframes,
                   routes, hasDefault, bc, nbcast, hooks, aside>>

\* the kept clone is dropped
CloneDrop(c) ==
    /\ held[c]
    /\ held' = [held EXCEPT ![c] = FALSE]
    /\ UNCHANGED <<counter, registry, sess, wpc, wcur, rpc, queue, wire, tasks, nframes,
                   ndirect, routes, hasDefault, bc, nbcast, nsent, hooks,
                   lastDirect, aside>>

\* ------------------------------------------------------ middleware chain
\* the components of the session runtime, which the chain does not touch
core == <<counter, registry, sess, wpc, wcur, rpc, queue, wire, tasks, held,
          nframes, ndirect, routes, hasDefault, bc, nbcast, nsent, hooks, lastDirect>>

\* what a middleware does in handle: "wrap" works on the message, awaits
\* next.run and then works on the response (as LoggerMiddleware does);
\* "block" returns a response of its own without calling next
MwKinds == {"wrap", "block"}

\* mutant of layer: the middleware is put in front of those registered before
layerFront(ms, m) == <<m>> \o ms

\* middleware/mod.rs MiddlewareChain::layer 454-457: Vec::push
layer(ms, m) == Append(ms, m)

\* MiddlewareChain::layer called by the application; the id of a middleware
\* is its registration number
ChainLayer(kind) ==
    /\ mw.pc = "build"
    /\ Len(mw.middlewares) < MaxMw
    /\ mw' = [mw EXCEPT !.middlewares =
                  layer(@, [id |-> Len(mw.middlewares) + 1, kind |-> kind])]
    /\ UNCHANGED <<core, io, state, hs>>

\* middleware/mod.rs MiddlewareChain::handler 481-484
ChainHandler ==
    /\ mw.pc = "build"
    /\ ~mw.handler
    /\ mw' = [mw EXCEPT !.handler = TRUE]
    /\ UNCHANGED <<core, io, state, hs>>

\* middleware/mod.rs MiddlewareChain::execute 510-519: Next::new(chain, 0)
ChainExecute ==
    /\ mw.pc = "build"
    /\ mw' = [mw EXCEPT !.pc = "run", !.index = 0]
    /\ UNCHANGED <<core, io, state, hs>>

\* middleware/mod.rs Next::run 227-246: the middleware at index is taken, index
\* is advanced and its handle starts (its work on the message is logged); a
\* wrapping one is then waiting in next.run, a blocking one returns. Past the
\* last middleware the handler is called, or Ok(None) returned without one.
NextRun ==
    /\ mw.pc = "run"
    /\ IF mw.index < Len(mw.middlewares)
       THEN LET m == mw.middlewares[mw.index + 1]
            IN  mw' = IF m.kind = "wrap"
                      THEN [mw EXCEPT !.index = @ + 1,
                                      !.log = Append(@, <<"pre", m.id>>),
                                      !.stack = Append(@, m)]
                      ELSE [mw EXCEPT !.index = @ + 1,
                                      !.log = Append(@, <<"pre", m.id>>),
                                      !.resp = <<"blocked">>,
                                      !.pc = "unwind"]
       ELSE IF mw.handler
            THEN mw' = [mw EXCEPT !.log = Append(@, <<"handler">>), !.resp = <<"h">>,
                                  !.pc = "unwind"]
            ELSE mw' = [mw EXCEPT !.resp = <<"none">>, !.pc = "unwind"]
    /\ UNCHANGED <<core, io, state, hs>>

\* the next.run awaited by the innermost waiting middleware has returned: the
\* middleware works on the response (it marks it with its id) and returns it
MiddlewareReturn ==
    /\ mw.pc = "unwind"
    /\ mw.stack # <<>>
    /\ LET m == mw.stack[Len(mw.stack)]
       IN  mw' = [mw EXCEPT !.stack = SubSeq(@, 1, Len(@) - 1),
                            !.log = Append(@, <<"post", m.id>>),
                            !.resp = Append(@, m.id)]
    /\ UNCHANGED <<core, io, state, hs>>

\* middleware/mod.rs 518: execute returns what the outermost run returned
ChainDone ==
    /\ mw.pc = "unwind"
    /\ mw.stack = <<>>
    /\ mw' = [mw EXCEPT !.pc = "done"]
    /\ UNCHANGED <<core, io, state, hs>>

\* --------------------------------------------------------- static files
\* A path is a string of tokens: "/" and, between slashes, a segment. A segment
\* is a name, "..", or a percent-encoded form: "%2E%2E" decodes to "..",
\* "%2Fs" decodes to "/" followed by the name s, "%FF" is not valid UTF-8.
Segments == {"a", "d", "i", "l", "s", "..", "%2E%2E", "%2Fs", "%FF"}
SegLists == UNION { [1 .. n -> Segments] : n \in 0 .. MaxPath }

\* the URL path of a request line: "/" seg "/" seg ...
RECURSIVE Join(_)
Join(segs) ==
    IF segs = <<>> THEN <<>>
    ELSE IF Len(segs) = 1 THEN segs
    ELSE <<Head(segs), "/">> \o Join(Tail(segs))
UrlPath(segs) == <<"/">> \o Join(segs)

\* The files on disk. The root is /r. Under it: the file a, the index file i,
\* the directory d with its own index d/i, and l, a symbolic link to the
\* file /s, which is outside the root. With linked, d/i is a symbolic link to
\* /s as well.
FsKind(p, linked) ==
    CASE p = <<>> -> "dir"
      [] p = <<"r">> -> "dir"
      [] p = <<"r", "a">> -> "file"
      [] p = <<"r", "i">> -> "file"
      [] p = <<"r", "d">> -> "dir"
      [] p = <<"r", "d", "i">> -> IF linked THEN "link" ELSE "file"
      [] p = <<"r", "l">> -> "link"
      [] p = <<"s">> -> "file"
      [] OTHER -> "none"
LinkTarget(p) == <<"s">>

\* str::trim_start_matches(ch)
RECURSIVE trim_start_matches(_, _)
trim_start_matches(s, ch) ==
    IF s # <<>> /\ Head(s) = ch THEN trim_start_matches(Tail(s), ch) ELSE s

\* percent_encoding::percent_decode_str(..).decode_utf8(): None on bytes that
\* are not UTF-8
RECURSIVE percent_decode(_)
percent_decode(s) ==
    IF s = <<>> THEN <<>>
    ELSE (CASE Head(s) = "%2E%2E" -> <<"..">>
            [] Head(s) = "%2Fs" -> <<"/", "s">>
            [] OTHER -> <<Head(s)>>) \o percent_decode(Tail(s))
decode_utf8(s) == IF \E j \in 1 .. Len(s) : s[j] = "%FF" THEN None ELSE percent_decode(s)

\* std::path: the components of a path string (empty ones are dropped)
RECURSIVE Components(_)
Components(s) ==
    IF s = <<>> THEN <<>>
    ELSE IF Head(s) = "/" THEN Components(Tail(s))
    ELSE <<Head(s)>> \o Components(Tail(s))

\* PathBuf::push: an absolute path replaces the buffer, a relative one is
\* appended to it
push(buf, s) ==
    IF s # <<>> /\ Head(s) = "/" THEN Components(s) ELSE buf \o Components(s)

\* path resolution by the operating system, as done by fs::canonicalize and by
\* File::open: components are walked from cur, ".." goes to the parent, a
\* symbolic link is followed, a missing entry or a walk through a file fails
RECURSIVE Resolve(_, _, _)
Resolve(cur, comps, linked) ==
    IF comps = <<>> THEN [ok |-> TRUE, p |-> cur]
    ELSE IF FsKind(cur, linked) # "dir" THEN [ok |-> FALSE, p |-> cur]
    ELSE IF Head(comps) = ".."
         THEN Resolve(IF cur = <<>> THEN cur ELSE SubSeq(cur, 1, Len(cur) - 1),
                      Tail(comps), linked)
    ELSE LET nxt == Append(cur, Head(comps))
         IN  CASE FsKind(nxt, linked) = "none" -> [ok |-> FALSE, p |-> nxt]
               [] FsKind(nxt, linked) = "link" -> Resolve(LinkTarget(nxt), Tail(comps), linked)
               [] OTHER -> Resolve(nxt, Tail(comps), linked)
canonicalize(path, linked) == Resolve(<<>>, path, linked)

\* Path::starts_with: component-wise prefix
path_starts_with(p, base) == Len(p) >= Len(base) /\ SubSeq(p, 1, Len(base)) = base

\* StaticFileHandler { root, index_file } as configured
StaticRoot == <<"r">>
IndexFile == "i"

\* static_files.rs StaticFileHandler::serve 418-466: Ok with the file that was
\* read, or Err
ServeErr(why) == [ok |-> FALSE, why |-> why]
serve(path, linked) ==
    LET clean_path == trim_start_matches(path, "/")
        decoded == decode_utf8(clean_path)
        file_path == push(StaticRoot, decoded)
        canonical == canonicalize(file_path, linked)
        root_canonical == canonicalize(StaticRoot, linked)
        opened == IF FsKind(canonical.p, linked) = "dir"
                  THEN Append(file_path, IndexFile) ELSE file_path
        file == Resolve(<<>>, opened, linked)
    IN  IF decoded = None THEN ServeErr("Invalid path encoding")
        ELSE IF ~canonical.ok THEN ServeErr("File not found")
        ELSE IF ~root_canonical.ok THEN ServeErr("Invalid root directory")
        ELSE IF ~path_starts_with(canonical.p, root_canonical.p) THEN ServeErr("Access denied")
        ELSE IF ~file.ok THEN ServeErr("File not found")
        ELSE IF FsKind(file.p, linked) # "file" THEN ServeErr("Failed to read file")
        ELSE [ok |-> TRUE, read |-> file.p, target |-> canonical.p]

\* the first line of a request as split_whitespace sees it: no part at all,
\* a method alone, or method, path and version
Methods == {"GET", "HEAD", "POST", "DELETE", "get"}
RequestLines ==
    {<<>>} \cup { <<m>> : m \in Methods }
           \cup { <<m, UrlPath(segs), <<"HTTP/1.1">> >> : m \in Methods, segs \in SegLists }

\* router.rs handle_http_request 717-728: the path of a GET or HEAD line with
\* at least two parts, "/" for anything else
request_path(line) ==
    IF Len(line) >= 2 /\ (line[1] = "GET" \/ line[1] = "HEAD") THEN line[2] ELSE <<"/">>

\* router.rs Router::handle_http_request 708-745 on a connection that was not
\* an upgrade: the path is taken from the request line, served, and answered
\* with 200 and the file or with 404
HandleHttpRequest(line, linked) ==
    /\ io = NoMsg
    /\ LET r == serve(request_path(line), linked)
       IN  io' = [op |-> "http", line |-> line, linked |-> linked,
                  status |-> IF r.ok THEN 200 ELSE 404,
                  read |-> IF r.ok THEN r.read ELSE None,
                  target |-> canonicalize(push(StaticRoot,
                                 IF Len(line) >= 2 /\ decode_utf8(trim_start_matches(line[2], "/")) # None
                                 THEN decode_utf8(trim_start_matches(line[2], "/"))
                                 ELSE <<>>), linked)]
    /\ UNCHANGED <<core, mw, state, hs>>

\* router.rs 742-745 and 680-684: the response is written and flushed, the
\* stream is dropped and the task of this connection ends
HttpClose ==
    /\ io # NoMsg
    /\ io.op = "http"
    /\ io' = NoMsg
    /\ UNCHANGED <<core, mw, state, hs>>

\* ------------------------------------------------------------- listener
\* The peeked bytes as a string of tokens that keep their letter case
HeaderTokens == {"Upgrade", "upgrade", "UPGRADE", ": ", "websocket", "WebSocket",
                 "WEBSOCKET", "h2c", "GET"}
Headers == UNION { [1 .. n -> HeaderTokens] : n \in 0 .. MaxHeader }

\* str::contains(needle)
contains(h, needle) ==
    \E j \in 1 .. (Len(h) + 1 - Len(needle)) : SubSeq(h, j, j + Len(needle) - 1) = needle

\* router.rs handle_connection 698: the test for an upgrade request
is_upgrade(h) ==
    \/ contains(h, <<"Upgrade", ": ", "websocket">>)
    \/ contains(h, <<"upgrade", ": ", "websocket">>)

\* router.rs Router::handle_connection 688-706: peek with a timeout, then the
\* branch taken: the WebSocket handshake, the HTTP responder, or an error that
\* closes the connection. peek is "ok", "timeout" or "error"; header is the
\* bytes peeked (empty when the peek failed).
HandleConnection(peek, header, hasStatic) ==
    /\ io = NoMsg
    /\ peek # "ok" => header = <<>>
    /\ io' = [op |-> "accept", peek |-> peek, header |-> header, static |-> hasStatic,
              route |-> IF peek # "ok" THEN "closed"
                        ELSE IF is_upgrade(header) THEN "websocket"
                        ELSE IF hasStatic THEN "http"
                        ELSE "closed"]
    /\ UNCHANGED <<core, mw, state, hs>>

\* router.rs listen 676-683: the task of the accepted connection ends
ConnectionDone ==
    /\ io # NoMsg
    /\ io.op = "accept"
    /\ io' = NoMsg
    /\ UNCHANGED <<core, mw, state, hs>>

\* ------------------------------------------------------------- AppState
\* The types under which the applications store values, by name; TypeId::of
\* is injective, so the name stands for the TypeId
TypeIds == {"ConnectionManager", "Arc<ConnectionManager>", "ChatRoom", "AppConfig"}

\* Arc pointers: two allocations of each type
Arcs == {<<"Arc", "p">>, <<"Arc", "q">>}

\* state.rs AppState::insert 349-351, replacing nothing that is present
state_insert_keep(data, T, a) ==
    [k \in DOMAIN data \cup {T} |->
        IF k \in DOMAIN data THEN data[k] ELSE [type |-> T, arc |-> a]]

\* state.rs AppState::insert 349-351: DashMap::insert under TypeId::of::<T>()
state_insert(data, T, a) ==
    [k \in DOMAIN data \cup {T} |->
        IF k = T THEN [type |-> T, arc |-> a] ELSE data[k]]

\* state.rs AppState::get 447-451: lookup under TypeId::of::<T>(), then downcast
state_get(data, T) ==
    IF T \in DOMAIN data /\ data[T].type = T THEN data[T].arc ELSE None

\* state.rs AppState::contains 471-473
state_contains(data, T) == T \in DOMAIN data

\* state.rs AppState::remove 497-501: the map without the key
state_remove(data, T) == [k \in DOMAIN data \ {T} |-> data[k]]

\* state.rs AppState::len 526-528
state_len(data) == Cardinality(DOMAIN data)

\* state.rs AppState::clear 573-575
state_clear(data) == [k \in {} |-> None]

StateInsert(T, a) ==
    /\ state' = [state EXCEPT !.data = state_insert(@, T, a),
                               !.call = [op |-> "insert", type |-> T, arc |-> a,
                                         ret |-> None]]
    /\ UNCHANGED <<core, mw, io, hs>>

StateGet(T) ==
    /\ state' = [state EXCEPT !.call = [op |-> "get", type |-> T, arc |-> None,
                                         ret |-> state_get(state.data, T)]]
    /\ UNCHANGED <<core, mw, io, hs>>

\* remove returns the value that was stored, downcast to T
StateRemove(T) ==
    /\ state' = [state EXCEPT !.data = state_remove(@, T),
                               !.call = [op |-> "remove", type |-> T, arc |-> None,
                                         ret |-> state_get(state.data, T)]]
    /\ UNCHANGED <<core, mw, io, hs>>

StateClear ==
    /\ state' = [state EXCEPT !.data = state_clear(@),
                               !.call = [op |-> "clear", type |-> "", arc |-> None,
                                         ret |-> None]]
    /\ UNCHANGED <<core, mw, io, hs>>

\* router.rs Router::new 259: the registry the router creates for itself; the
\* session runtime registers connections in this one (router.rs 756)
OwnManager == <<"Arc", "p">>

\* router.rs Router::with_state 361-364: the builder stores a value before
\* listen consumes the router
WithState(T, a) ==
    /\ ~state.listening
    /\ state' = [state EXCEPT !.data = state_insert(@, T, a),
                               !.call = [op |-> "with_state", type |-> T, arc |-> a,
                                         ret |-> None]]
    /\ UNCHANGED <<core, mw, io, hs>>

\* router.rs Router::listen 662-674: insert(self.connection_manager.clone()),
\* an Arc<ConnectionManager>, so the key is the TypeId of ConnectionManager
Listen ==
    /\ ~state.listening
    /\ state' = [data |-> state_insert(state.data, "ConnectionManager", OwnManager),
                 listening |-> TRUE,
                 call |-> [op |-> "listen", type |-> "ConnectionManager",
                           arc |-> OwnManager, ret |-> None]]
    /\ UNCHANGED <<core, mw, io, hs>>

\* extractor.rs State<T>::from_message 429-441 in a dispatch: get::<T>(), and
\* Err("State not found") (ret None) when nothing is stored under T
ExtractState(T) ==
    /\ state.listening
    /\ state' = [state EXCEPT !.call = [op |-> "extract", type |-> T, arc |-> None,
                                         ret |-> state_get(state.data, T)]]
    /\ UNCHANGED <<core, mw, io, hs>>

\* ------------------------------------------- handshakes of several routers
\* Router instances of one process; COUNTER is a static of the function, one
\* for all of them
Routers == {"r1", "r2"}

\* router.rs handle_websocket_connection 751: accept_async of a TCP connection
\* accepted by router r returned Ok
AcceptAsync(h, r) ==
    /\ hs[h].pc = "idle"
    /\ hs' = [hs EXCEPT ![h].pc = "accepted", ![h].router = r]
    /\ UNCHANGED <<core, mw, io, state>>

\* mutant of AcceptAsyncErr: the id is taken from the counter before the
\* handshake is awaited
AcceptAsyncErrAfterId(h, r) ==
    /\ hs[h].pc = "idle"
    /\ counter' = fetch_add(counter, 1).val
    /\ hs' = [hs EXCEPT ![h].pc = "failed", ![h].router = r]
    /\ UNCHANGED <<registry, sess, wpc, wcur, rpc, queue, wire, tasks, held, nframes,
                   ndirect, routes, hasDefault, bc, nbcast, nsent, hooks, lastDirect,
                   mw, io, state>>

\* router.rs 751 and 680-682: accept_async returned Err, so `?` returns from
\* handle_websocket_connection and the spawned task logs the error and ends
AcceptAsyncErr(h, r) ==
    /\ hs[h].pc = "idle"
    /\ hs' = [hs EXCEPT ![h].pc = "failed", ![h].router = r]
    /\ UNCHANGED <<core, mw, io, state>>

\* router.rs 752 with generate_connection_id 861-865: fetch_add on COUNTER and
\* the formatting of the value it returned
GenerateConnectionId(h) ==
    /\ hs[h].pc = "accepted"
    /\ counter' = fetch_add(counter, 1).val
    /\ hs' = [hs EXCEPT ![h].pc = "named",
                        ![h].n = fetch_add(counter, 1).prev,
                        ![h].id = format_conn(fetch_add(counter, 1).prev)]
    /\ UNCHANGED <<registry, sess, wpc, wcur, rpc, queue, wire, tasks, held, nframes,
                   ndirect, routes, hasDefault, bc, nbcast, nsent, hooks, lastDirect,
                   mw, io, state>>

\* -------------------------------------------------------- wire conversion
\* Messages as user code can build them: the fields of Message are public
Payloads == UNION { [1 .. n -> {"a", "b", "FF"}] : n \in 0 .. MaxPayload }
Messages == { Msg(t, d) : t \in {"Text", "Binary", "Ping", "Pong", "Close"}, d \in Payloads }

\* connection.rs 784 and 809: a Message is converted for the socket, and what
\* the socket carries is converted back
Convert(m) ==
    /\ io = NoMsg
    /\ io' = [op |-> "wire", m |-> m, wire |-> into_tungstenite(m),
              back |-> from_tungstenite(into_tungstenite(m))]
    /\ UNCHANGED <<core, mw, state, hs>>

ConvertDone ==
    /\ io # NoMsg
    /\ io.op = "wire"
    /\ io' = NoMsg
    /\ UNCHANGED <<core, mw, state, hs>>

\* ------------------------------------------------------ AppState handles
\* An AppState value is a handle: it holds an Arc of a DashMap. io.stores are
\* the maps that exist, io.handles[h] is the map the Arc of handle h points to.

\* state.rs AppState::new 271-275: a handle on a new empty map
HandleNew ==
    /\ io = NoMsg
    /\ io' = [op |-> "state", stores |-> << <<>> >>, handles |-> <<1>>,
              call |-> [op |-> "new", h |-> 1, type |-> "", arc |-> None]]
    /\ UNCHANGED <<core, mw, state, hs>>

\* mutant of HandleClone: the clone owns a copy of the map
HandleCloneDeep(h) ==
    /\ io # NoMsg
    /\ io.op = "state"
    /\ h \in 1 .. Len(io.handles)
    /\ Len(io.handles) < MaxHandles
    /\ io' = [io EXCEPT !.stores = Append(@, io.stores[io.handles[h]]),
                        !.handles = Append(@, Len(io.stores) + 1),
                        !.call = [op |-> "clone", h |-> h, type |-> "", arc |-> None]]
    /\ UNCHANGED <<core, mw, state, hs>>

\* state.rs 253-257: #[derive(Clone)] clones the one field, an Arc, so the new
\* handle points to the map of handle h (router.rs 839 and 872 clone this way)
HandleClone(h) ==
    /\ io # NoMsg
    /\ io.op = "state"
    /\ h \in 1 .. Len(io.handles)
    /\ Len(io.handles) < MaxHandles
    /\ io' = [io EXCEPT !.handles = Append(@, io.handles[h]),
                        !.call = [op |-> "clone", h |-> h, type |-> "", arc |-> None]]
    /\ UNCHANGED <<core, mw, state, hs>>

\* state.rs AppState::insert 349-351 through handle h
HandleInsert(h, T, a) ==
    /\ io # NoMsg
    /\ io.op = "state"
    /\ h \in 1 .. Len(io.handles)
    /\ io' = [io EXCEPT !.stores[io.handles[h]] = state_insert(@, T, a),
                        !.call = [op |-> "insert", h |-> h, type |-> T, arc |-> a]]
    /\ UNCHANGED <<core, mw, state, hs>>

\* state.rs AppState::remove 497-501 through handle h
HandleRemove(h, T) ==
    /\ io # NoMsg
    /\ io.op = "state"
    /\ h \in 1 .. Len(io.handles)
    /\ io' = [io EXCEPT !.stores[io.handles[h]] = state_remove(@, T),
                        !.call = [op |-> "remove", h |-> h, type |-> T, arc |-> None]]
    /\ UNCHANGED <<core, mw, state, hs>>

\* state.rs AppState::clear 573-575 through handle h
HandleClear(h) ==
    /\ io # NoMsg
    /\ io.op = "state"
    /\ h \in 1 .. Len(io.handles)
    /\ io' = [io EXCEPT !.stores[io.handles[h]] = state_clear(@),
                        !.call = [op |-> "clear", h |-> h, type |-> "", arc |-> None]]
    /\ UNCHANGED <<core, mw, state, hs>>

\* ------------------------------------------------- handler with extractors
\* What the from_message of each parameter of a handler returns: Ok, or an
\* Err of the extractor or of the JSON kind
ExtractOutcomes == UNION { [1 .. n -> {"ok", "extractor", "json"}] : n \in 0 .. MaxParams }

\* handler.rs 477-483: Handler::call of a HandlerService is entered
CallHandler(outcomes) ==
    /\ io = NoMsg
    /\ io' = [op |-> "call", outcomes |-> outcomes, pc |-> "extract", ran |-> <<>>,
              invoked |-> 0, res |-> "none"]
    /\ UNCHANGED <<core, mw, state, hs>>

\* mutant of CallExtract: a failed extractor does not end the call
CallExtractGoesOn ==
    /\ io # NoMsg
    /\ io.op = "call"
    /\ io.pc = "extract"
    /\ Len(io.ran) < Len(io.outcomes)
    /\ io' = [io EXCEPT !.ran = Append(@, Len(io.ran) + 1)]
    /\ UNCHANGED <<core, mw, state, hs>>

\* handler.rs 484-486: the next `let $ty = $ty::from_message(..).await?`, in
\* the order of the parameters; an Err returns it from call
CallExtract ==
    /\ io # NoMsg
    /\ io.op = "call"
    /\ io.pc = "extract"
    /\ Len(io.ran) < Len(io.outcomes)
    /\ LET k == Len(io.ran) + 1
       IN  io' = IF io.outcomes[k] = "ok"
                 THEN [io EXCEPT !.ran = Append(@, k)]
                 ELSE [io EXCEPT !.ran = Append(@, k), !.pc = "done",
                                 !.res = io.outcomes[k]]
    /\ UNCHANGED <<core, mw, state, hs>>

\* what into_response of the value a handler returns can be: Ok(Some(reply)),
\* Ok(None) or an Err
BodyResults == {"reply", "noreply", "handler"}

\* handler.rs 488-489: every extractor returned Ok, the handler function is
\* called with the extracted values and its response is converted
CallBody(r) ==
    /\ io # NoMsg
    /\ io.op = "call"
    /\ io.pc = "extract"
    /\ Len(io.ran) = Len(io.outcomes)
    /\ io' = [io EXCEPT !.invoked = @ + 1, !.pc = "done", !.res = r]
    /\ UNCHANGED <<core, mw, state, hs>>

\* handler.rs 490: call has returned
CallReturn ==
    /\ io # NoMsg
    /\ io.op = "call"
    /\ io.pc = "done"
    /\ io' = NoMsg
    /\ UNCHANGED <<core, mw, state, hs>>

\* ---------------------------------------------------------- specifications
\* Sessions with their read and write tasks, and the dispatch of inbound frames
Next ==
    \/ Handshake
    \/ \E c \in Ids : Add(c)
    \/ \E c \in Ids : OnConnect(c)
    \/ \E c \in Ids : WriteRecv(c)
    \/ \E c \in Ids : WriteClosed(c)
    \/ \E c \in Ids : WriteOk(c)
    \/ \E c \in Ids : WriteErr(c)
    \/ \E c \in Ids, w \in SocketFrames : ReadNext(c, w)
    \/ \E c \in Ids : ReadEnd(c)
    \/ \E c \in Ids : Remove(c)
    \/ \E c \in Ids : OnDisconnect(c)
    \/ \E c \in Ids, i \in 1 .. MaxFrames : DispatchLookup(c, i)
    \/ \E c \in Ids, i \in 1 .. MaxFrames, beh \in Behaviours : HandlerCall(c, i, beh)
    \/ \E c \in Ids, i \in 1 .. MaxFrames : HandlerReturn(c, i)

Spec == Init /\ [][Next]_vars

\* Sessions with their read and write tasks, and producers that hold the
\* manager or a Connection clone: broadcasts and direct sends
InitFanout == Init /\ hasDefault

NextFanout ==
    \/ Handshake
    \/ \E c \in Ids : Add(c)
    \/ \E c \in Ids : OnConnect(c)
    \/ \E c \in Ids : WriteRecv(c)
    \/ \E c \in Ids : WriteClosed(c)
    \/ \E c \in Ids : WriteOk(c)
    \/ \E c \in Ids : WriteErr(c)
    \/ \E c \in Ids : ReadEnd(c)
    \/ \E c \in Ids : Remove(c)
    \/ \E c \in Ids : OnDisconnect(c)
    \/ BroadcastBegin
    \/ \E c \in Ids : BroadcastStep(c)
    \/ BroadcastEnd
    \/ \E c \in Ids : CloneGet(c)
    \/ \E c \in Ids : CloneSend(c)
    \/ \E c \in Ids : CloneDrop(c)

SpecFanout == InitFanout /\ [][NextFanout]_vars

\* Sessions with their read and write tasks, and producers that call the
\* targeted broadcasts
NextTargeted ==
    \/ Handshake
    \/ \E c \in Ids : Add(c)
    \/ \E c \in Ids : OnConnect(c)
    \/ \E c \in Ids : WriteRecv(c)
    \/ \E c \in Ids : WriteClosed(c)
    \/ \E c \in Ids : WriteOk(c)
    \/ \E c \in Ids : WriteErr(c)
    \/ \E c \in Ids : ReadEnd(c)
    \/ \E c \in Ids : Remove(c)
    \/ \E c \in Ids : OnDisconnect(c)
    \/ \E x \in Ids : BroadcastExceptBegin(x)
    \/ \E x \in Ids : BroadcastExceptPanic(x)
    \/ \E c \in Ids : BroadcastExceptStep(c)
    \/ BroadcastExceptEnd
    \/ \E ids \in IdLists : BroadcastToBegin(ids)
    \/ BroadcastToStep
    \/ BroadcastToEnd

SpecTargeted == InitFanout /\ [][NextTargeted]_vars

\* Sessions without their write tasks, dispatch, and producers that call the
\* operations of the ConnectionManager, MaxRegistryOps frames and calls in all
NextRegistry ==
    \/ Handshake
    \/ \E c \in Ids : Add(c)
    \/ \E c \in Ids : OnConnect(c)
    \/ \E c \in Ids, w \in SocketFrames :
          (nframes < MaxRegistryOps \/ is_close(w)) /\ ReadNext(c, w)
    \/ \E c \in Ids : Remove(c)
    \/ \E c \in Ids : OnDisconnect(c)
    \/ \E c \in Ids, i \in 1 .. MaxFrames : DispatchLookup(c, i)
    \/ \E c \in Ids, i \in 1 .. MaxFrames, beh \in Behaviours : HandlerCall(c, i, beh)
    \/ \E c \in Ids, i \in 1 .. MaxFrames : HandlerReturn(c, i)
    \/ nbcast < MaxRegistryOps /\ BroadcastBegin
    \/ \E c \in Ids : BroadcastStep(c)
    \/ BroadcastEnd
    \/ \E x \in Ids : nbcast < MaxRegistryOps /\ BroadcastExceptBegin(x)
    \/ \E x \in Ids : nbcast < MaxRegistryOps /\ BroadcastExceptPanic(x)
    \/ \E c \in Ids : BroadcastExceptStep(c)
    \/ BroadcastExceptEnd
    \/ \E ids \in IdLists : nbcast < MaxRegistryOps /\ BroadcastToBegin(ids)
    \/ BroadcastToStep
    \/ BroadcastToEnd

SpecRegistry == InitFanout /\ [][NextRegistry]_vars

\* Sessions with both tasks, replies and one broadcast. The session task runs
\* from manager.add to the spawn of the write task without awaiting
\* (connection.rs 764-794), the runtime schedules every write task again and
\* again, and a write to the socket returns
NextDrain ==
    \/ Handshake
    \/ \E c \in Ids : Add(c)
    \/ \E c \in Ids : OnConnect(c)
    \/ \E c \in Ids : WriteRecv(c)
    \/ \E c \in Ids : WriteClosed(c)
    \/ \E c \in Ids : WriteOk(c)
    \/ \E c \in Ids : WriteErr(c)
    \/ \E c \in Ids, w \in SocketFrames :
          /\ w.kind # "Binary"
          /\ nframes < MaxRegistryOps \/ is_close(w)
          /\ ReadNext(c, w)
    \/ \E c \in Ids : Remove(c)
    \/ \E c \in Ids : OnDisconnect(c)
    \/ \E c \in Ids, i \in 1 .. MaxFrames : DispatchLookup(c, i)
    \/ \E c \in Ids, i \in 1 .. MaxFrames : HandlerCall(c, i, "echo")
    \/ \E c \in Ids, i \in 1 .. MaxFrames : HandlerReturn(c, i)
    \/ BroadcastBegin
    \/ \E c \in Ids : BroadcastStep(c)
    \/ BroadcastEnd

SpecDrain ==
    /\ InitFanout
    /\ [][NextDrain]_vars
    /\ \A c \in Ids : WF_vars(OnConnect(c))
    /\ \A c \in Ids : WF_vars(WriteRecv(c))
    /\ \A c \in Ids : WF_vars(WriteOk(c) \/ WriteErr(c))

\* A middleware chain that is built and then executed once
NextChain ==
    \/ \E kind \in MwKinds : ChainLayer(kind)
    \/ ChainHandler
    \/ ChainExecute
    \/ NextRun
    \/ MiddlewareReturn
    \/ ChainDone

SpecChain == InitFanout /\ [][NextChain]_vars

\* Plain HTTP requests answered by the static file handler
NextStatic ==
    \/ \E line \in RequestLines, linked \in BOOLEAN : HandleHttpRequest(line, linked)
    \/ HttpClose

SpecStatic == InitFanout /\ [][NextStatic]_vars

\* Accepted TCP connections and the branch the listener takes for each
NextListener ==
    \/ \E peek \in {"ok", "timeout", "error"}, header \in Headers, hasStatic \in BOOLEAN :
          HandleConnection(peek, header, hasStatic)
    \/ ConnectionDone

SpecListener == InitFanout /\ [][NextListener]_vars

\* An AppState under any sequence of calls
NextState ==
    \/ \E T \in TypeIds, a \in Arcs : StateInsert(T, a)
    \/ \E T \in TypeIds : StateGet(T)
    \/ \E T \in TypeIds : StateRemove(T)
    \/ StateClear

SpecState == InitFanout /\ [][NextState]_vars

\* The router's state from the builder to the extractions of its handlers
NextShared ==
    \/ \E T \in TypeIds, a \in Arcs : WithState(T, a)
    \/ Listen
    \/ \E T \in TypeIds : ExtractState(T)

SpecShared == InitFanout /\ [][NextShared]_vars

\* Handshakes completing concurrently on several routers
NextIds ==
    \/ \E h \in 1 .. MaxHs, r \in Routers : AcceptAsync(h, r)
    \/ \E h \in 1 .. MaxHs : GenerateConnectionId(h)

SpecIds == InitFanout /\ [][NextIds]_vars

\* Sessions that connect and disconnect while other handshakes fail
NextHandshake ==
    \/ Handshake
    \/ \E c \in Ids : Add(c)
    \/ \E c \in Ids : OnConnect(c)
    \/ \E c \in Ids : ReadEnd(c)
    \/ \E c \in Ids : Remove(c)
    \/ \E c \in Ids : OnDisconnect(c)
    \/ \E h \in 1 .. MaxHs, r \in Routers : AcceptAsyncErr(h, r)

SpecHandshake == InitFanout /\ [][NextHandshake]_vars

\* Calls of handlers with zero to MaxParams extractor parameters
NextCall ==
    \/ \E o \in ExtractOutcomes : CallHandler(o)
    \/ CallExtract
    \/ \E r \in BodyResults : CallBody(r)
    \/ CallReturn

SpecCall == InitFanout /\ [][NextCall]_vars

\* An AppState, its clones, and writes through any of the handles
NextHandles ==
    \/ HandleNew
    \/ \E h \in 1 .. MaxHandles : HandleClone(h)
    \/ \E h \in 1 .. MaxHandles, T \in TypeIds, a \in Arcs : HandleInsert(h, T, a)
    \/ \E h \in 1 .. MaxHandles, T \in TypeIds : HandleRemove(h, T)
    \/ \E h \in 1 .. MaxHandles : HandleClear(h)

SpecHandles == InitFanout /\ [][NextHandles]_vars

\* Conversions of Messages to the framing library and back
NextWire ==
    \/ \E m \in Messages : Convert(m)
    \/ ConvertDone

SpecWire == InitFanout /\ [][NextWire]_vars

\* Route selection alone: one established session, any route table, frames of
\* every shape, and handlers that return Ok(())
RouteFrames ==
    { Text(<<"/", "c">>), Text(<<"/", "c", " ", "x">>), Text(<<"/", "c", "\t", "x">>),
      Text(<<"/", "c", "\n", "x">>), Text(<<"/", "u">>), Text(<<"h">>),
      Text(<<"h", " ", "/", "c">>), Text(<<>>), Binary(<<"/", "c">>),
      Ping(<<>>), Pong(<<>>) }

InitRoute ==
    /\ counter = 1
    /\ registry = {0}
    /\ sess = [c \in Ids |-> IF c = 0 THEN "running" ELSE "none"]
    /\ wpc = [c \in Ids |-> IF c = 0 THEN "recv" ELSE "idle"]
    /\ wcur = [c \in Ids |-> NoMsg]
    /\ rpc = [c \in Ids |-> IF c = 0 THEN "read" ELSE "idle"]
    /\ queue = [c \in Ids |-> <<>>]
    /\ wire = [c \in Ids |-> <<>>]
    /\ tasks = [c \in Ids |-> <<>>]
    /\ held = [c \in Ids |-> FALSE]
    /\ nframes = 0
    /\ ndirect = 0
    /\ routes \in SUBSET RouteKeys
    /\ hasDefault \in BOOLEAN
    /\ bc = NoBroadcast
    /\ nbcast = 0
    /\ nsent = [c \in Ids |-> 0]
    /\ hooks = [c \in Ids |-> [connects |-> IF c = 0 THEN 1 ELSE 0, disconnects |-> 0, endsent |-> 0]]
    /\ lastDirect = NoMsg
    /\ mw = NoChain
    /\ io = NoMsg
    /\ state = NoState
    /\ hs = NoHandshakes

NextRoute ==
    \/ \E c \in Ids, f \in RouteFrames : ReadFrame(c, f)
    \/ \E c \in Ids, i \in 1 .. MaxFrames : DispatchLookup(c, i)
    \/ \E c \in Ids, i \in 1 .. MaxFrames : HandlerCall(c, i, "silent")
    \/ \E c \in Ids, i \in 1 .. MaxFrames : HandlerReturn(c, i)

SpecRoute == InitRoute /\ [][NextRoute]_vars

\* One established session whose messages are dispatched, beside a middleware
\* chain that the application builds and may execute
NextPipeline ==
    \/ \E c \in Ids, w \in SocketFrames : ReadNext(c, w)
    \/ \E c \in Ids, i \in 1 .. MaxFrames : DispatchLookup(c, i)
    \/ \E c \in Ids, i \in 1 .. MaxFrames, beh \in Behaviours : HandlerCall(c, i, beh)
    \/ \E c \in Ids, i \in 1 .. MaxFrames : HandlerReturn(c, i)
    \/ NextChain

InitPipeline == InitRoute /\ routes = RouteKeys /\ hasDefault

SpecPipeline == InitPipeline /\ [][NextPipeline]_vars

\* ==================================================================== claims


\* C1 (as stated): on_connect(c) and on_disconnect(c) fire at most once each,
\* on_disconnect only after on_connect, and get(c) is Some exactly at the
\* points strictly between the two events, None before on_connect(c) and
\* after on_disconnect(c).
C1_GetSomeExactlyBetweenHooks ==
    \A c \in Ids :
        /\ hooks[c].connects <= 1
        /\ hooks[c].disconnects <= 1
        /\ hooks[c].disconnects = 1 => hooks[c].connects = 1
        /\ get(c) <=> (hooks[c].connects = 1 /\ hooks[c].disconnects = 0)

\* C1 (amended): each hook fires at most once per id, on_disconnect only after
\* on_connect, and both have fired exactly once when the session is over.
\* get(c) is Some from the insertion that precedes on_connect(c) until the
\* removal that precedes on_disconnect(c): None before the insertion, Some
\* from there through the whole time the session runs, None from the removal
\* on. So between the two hooks get(c) is Some except in the last window
\* (removed, on_disconnect not yet invoked), and before on_connect it is
\* None except in the window after the insertion.
C1_Lifecycle ==
    \A c \in Ids :
        /\ hooks[c].connects <= 1
        /\ hooks[c].disconnects <= 1
        /\ hooks[c].disconnects = 1 => hooks[c].connects = 1
        /\ sess[c] = "done" => hooks[c].connects = 1 /\ hooks[c].disconnects = 1
        /\ hooks[c].connects = 0 => (get(c) <=> sess[c] = "added")
        /\ (hooks[c].connects = 1 /\ hooks[c].disconnects = 0)
              => (get(c) <=> sess[c] = "running") /\ (~get(c) <=> sess[c] = "removed")
        /\ hooks[c].disconnects = 1 => ~get(c)

\* C1 witness: one session went through its whole life while another session
\* is registered and running
C1_Witness ==
    \E c, d \in Ids :
        /\ c # d
        /\ sess[c] = "done" /\ hooks[c].connects = 1 /\ hooks[c].disconnects = 1
        /\ sess[d] = "running" /\ get(d)
        /\ Len(tasks[c]) > 0

\* C2: when on_connect(registry, c) is invoked get(c) is Some and count() >= 1;
\* when on_disconnect(registry, c) is invoked get(c) is None. The hook runs in
\* the step that raises its counter and sees the registry of that step.
C2_HookLookup ==
    [][\A c \in Ids :
          /\ hooks'[c].connects > hooks[c].connects => get(c) /\ count >= 1
          /\ hooks'[c].disconnects > hooks[c].disconnects => ~get(c)]_vars

\* C2 witness: both hooks have been invoked, on_disconnect for one id while
\* another id, whose on_connect has run, is still registered
C2_Witness ==
    \E c, d \in Ids :
        /\ c # d
        /\ hooks[c].disconnects = 1 /\ ~get(c)
        /\ hooks[d].connects = 1 /\ hooks[d].disconnects = 0 /\ get(d)

\* everything c's queue accepted and did not lose: written, being written, waiting
All(c) == wire[c] \o (IF wcur[c] = NoMsg THEN <<>> ELSE <<wcur[c]>>) \o queue[c]

\* C3: per connection the wire order is the enqueue order and nothing is
\* written twice: the i-th message written to the socket is the i-th entry the
\* queue accepted, and while the write task lives the entries not yet written
\* wait behind it in the order they were accepted.
C3_WireOrder ==
    \A c \in Ids :
        /\ \A i \in 1 .. Len(wire[c]) : wire[c][i].n = i
        /\ wpc[c] # "ended" => \A i \in 1 .. Len(All(c)) : All(c)[i].n = i

\* C3 witness: a broadcast and a direct send were enqueued on one connection
\* and both were written
C3_Witness ==
    \E c \in Ids :
        /\ Len(wire[c]) >= 2
        /\ wire[c][1].src[1] # wire[c][2].src[1]

\* number of copies of broadcast k among the entries of a sequence
Copies(seq, k) == Cardinality({i \in 1 .. Len(seq) : seq[i].src = <<"bcast", k>>})

\* C4: in a broadcast that runs while sessions connect and disconnect, every
\* connection registered from its start to its end is offered the message;
\* an accepted copy is placed at the tail of the queue, behind everything
\* enqueued before, and is the only copy; no connection, however late it was
\* added, ever holds more than one copy.
C4_BroadcastOnce ==
    [][/\ \A c \in Ids :
             (bc.pc = "running" /\ bc'.pc = "running" /\ bc.res[c] = "none" /\ bc'.res[c] = "ok")
                => /\ queue'[c] = Append(queue[c], [m |-> Text(<<"b">>), src |-> <<"bcast", bc.k>>,
                                                    n |-> nsent[c] + 1])
                   /\ Copies(All(c), bc.k) = 0
       /\ (bc.pc = "running" /\ bc'.pc = "idle")
             => \A c \in bc.start \cap registry : bc.res[c] \in {"ok", "failed"}
       /\ \A c \in Ids, k \in 1 .. MaxBroadcasts :
             Copies(wire'[c], k) + Copies(queue'[c], k)
               + (IF wcur'[c] # NoMsg /\ wcur'[c].src = <<"bcast", k>> THEN 1 ELSE 0) <= 1]_vars

\* C4 witness: the broadcast is complete; a connection registered throughout
\* got its copy, and so did one that was added after the broadcast began
C4_Witness ==
    /\ bc.pc = "running" /\ bc.pending = {}
    /\ \E c \in bc.start \cap registry, d \in Ids \ bc.start :
          bc.res[c] = "ok" /\ bc.res[d] = "ok"

\* C5: a producer never waits for a slow client. While c's write task is
\* suspended in a socket write, or has messages waiting that it has not been
\* scheduled to take, a send on a clone of c and every step of a broadcast
\* can be taken at once, and the step for any other recipient whose queue is
\* open enqueues its copy.
C5_ProducerNeverBlocked ==
    \A c \in Ids :
        (wpc[c] = "write" \/ queue[c] # <<>>) =>
            /\ (held[c] /\ ndirect < MaxDirect) => ENABLED CloneSend(c)
            /\ (bc.pc = "running" /\ c \in bc.pending) => ENABLED BroadcastStep(c)
            /\ bc.pc = "running" =>
                  \A d \in bc.pending \ {c} :
                      ENABLED (/\ BroadcastStep(d)
                               /\ (d \in registry /\ wpc[d] # "ended")
                                     => Len(queue'[d]) = Len(queue[d]) + 1)
            /\ (bc.pc = "running" /\ bc.pending = {}) => ENABLED BroadcastEnd

\* C5 witness: c's write task is suspended in a write with the broadcast
\* already waiting in c's queue, and the other connection got its copy too
C5_Witness ==
    \E c, d \in Ids :
        /\ c # d
        /\ wpc[c] = "write"
        /\ Copies(queue[c], 1) = 1
        /\ Copies(All(d), 1) = 1

\* what C6 says of one send of an entry from src on c's queue with Result ok
SendContract(c, ok, src) ==
    /\ ok <=> wpc[c] # "ended"
    /\ ok => /\ Len(queue'[c]) = Len(queue[c]) + 1
             /\ SubSeq(queue'[c], 1, Len(queue[c])) = queue[c]
             /\ queue'[c][Len(queue'[c])].src = src
    /\ ~ok => queue'[c] = queue[c]
    /\ registry' = registry
    /\ \A d \in Ids \ {c} : queue'[d] = queue[d]

\* C6: Connection::send returns an error exactly when the write task of that
\* connection has ended (its receiver is gone); on success the message is
\* appended at the tail of the queue; on error the queue is unchanged; the
\* registry never changes. This holds for sends made by a broadcast and for
\* sends through a kept clone, registered or not.
C6_SendResult ==
    [][\A c \in Ids :
          /\ (bc.pc = "running" /\ bc'.pc = "running" /\ bc.res[c] = "none"
                /\ bc'.res[c] \in {"ok", "failed"})
                => SendContract(c, bc'.res[c] = "ok", <<"bcast", bc.k>>)
          /\ (ndirect' = ndirect + 1 /\ lastDirect'.conn = c)
                => SendContract(c, lastDirect'.ok, <<"direct", ndirect'>>)]_vars

\* C6 witness: a send through a clone still held after the connection was
\* removed and on_disconnect ran, and it succeeded
C6_Witness ==
    \E c \in Ids :
        /\ held[c] /\ ~get(c) /\ sess[c] = "done"
        /\ lastDirect = [conn |-> c, ok |-> TRUE]

\* the reference rule of C7: the key of a Text payload beginning with '/' is
\* its prefix up to the first whitespace character
Whitespace == {" ", "\t", "\n"}
RefSelect(rts, dflt, m) ==
    LET p == IF m.type = "Text" THEN FirstIn(m.data, Whitespace) ELSE 0
        key == IF p = 0 THEN m.data ELSE SubSeq(m.data, 1, p - 1)
    IN  IF m.type = "Text" /\ starts_with(m.data, "/") /\ key \in rts THEN Route(key)
        ELSE IF dflt THEN Default ELSE None

\* C7: for every inbound message of a registered connection the handler that
\* is dispatched is the one the reference rule names (the route registered
\* under the first whitespace-delimited token of a Text payload beginning
\* with '/', else the default handler), and no handler runs when the rule
\* names none.
C7_ReferenceRule ==
    \A c \in Ids : \A i \in 1 .. Len(tasks[c]) :
        (tasks[c][i].pc # "spawned" /\ tasks[c][i].result # "notfound") =>
            LET h == RefSelect(routes, hasDefault, tasks[c][i].msg)
            IN  IF h = None THEN tasks[c][i].result = "dropped"
                ELSE tasks[c][i].handler = h

\* C7 witness: a payload whose first whitespace is a tab, with its first
\* token a registered key, has been dispatched
C7_Witness ==
    \E c \in Ids : \E i \in 1 .. Len(tasks[c]) :
        /\ tasks[c][i].msg = Text(<<"/", "c", "\t", "x">>)
        /\ <<"/", "c">> \in routes
        /\ tasks[c][i].pc = "done"
        /\ tasks[c][i].result # "notfound"

\* the step in which the handler body of task i of c, which returns
\* Err(Error::handler("boom")), finishes
FailReturns(c, i) ==
    /\ tasks[c][i].pc = "running"
    /\ tasks[c][i].beh = "fail"
    /\ tasks'[c][i].pc = "done"

\* the reply C8 expects: Text "Error: " followed by the display form
BoomReply(c, i) ==
    [m |-> Text(<<"Error: ", "Handler error: ", "boom">>), src |-> <<"reply", i>>,
     n |-> nsent[c] + 1]

\* the connection and everything else in flight is left as it was
NotTornDown(c, i) ==
    /\ registry' = registry /\ sess' = sess /\ hooks' = hooks
    /\ rpc' = rpc /\ wpc' = wpc /\ wcur' = wcur /\ wire' = wire
    /\ \A d \in Ids \ {c} : queue'[d] = queue[d] /\ tasks'[d] = tasks[d]
    /\ \A j \in 1 .. Len(tasks[c]) : j # i => tasks'[c][j] = tasks[c][j]

\* C8 (as stated): whenever a handler returns an error, exactly one Text
\* "Error: <detail>" is enqueued on the originating connection's queue and the
\* connection is not torn down.
C8_ErrorReplyAlways ==
    [][\A c \in Ids : \A i \in 1 .. Len(tasks[c]) :
          FailReturns(c, i) =>
              /\ queue'[c] = Append(queue[c], BoomReply(c, i))
              /\ NotTornDown(c, i)]_vars

\* C8 (amended): when a handler returns an error, exactly one Text
\* "Error: <detail>" is enqueued at the tail of the originating connection's
\* queue provided the write task of that connection has not ended; when it
\* has ended nothing is enqueued (the failed send is logged). In both cases
\* the step tears nothing down: registry, session, hooks, read task and every
\* other dispatch are untouched.
C8_ErrorReplyWhileOpen ==
    [][\A c \in Ids : \A i \in 1 .. Len(tasks[c]) :
          FailReturns(c, i) =>
              /\ IF wpc[c] # "ended"
                 THEN /\ queue'[c] = Append(queue[c], BoomReply(c, i))
                      /\ tasks'[c][i].result = "replied"
                 ELSE /\ queue'[c] = queue[c]
                      /\ tasks'[c][i].result = "sendfail"
              /\ NotTornDown(c, i)]_vars

\* C8 witness: the first message of c got the error reply, c is still
\* registered with no on_disconnect, and its next message was dispatched and
\* answered behind the error reply
C8_Witness ==
    \E c \in Ids :
        /\ Len(tasks[c]) >= 2
        /\ tasks[c][1].beh = "fail" /\ tasks[c][1].result = "replied"
        /\ tasks[c][2].beh = "echo" /\ tasks[c][2].result = "replied"
        /\ get(c) /\ hooks[c].disconnects = 0
        /\ \E j, k \in 1 .. Len(All(c)) :
              /\ j < k
              /\ All(c)[j].src = <<"reply", 1>>
              /\ All(c)[j].m = Text(<<"Error: ", "Handler error: ", "boom">>)
              /\ All(c)[k].src = <<"reply", 2>>

\* C9: when an extractor of the handler fails while the connection's queue is
\* open, exactly one Text reply beginning with "Error: " is enqueued on the
\* originating connection, the connection stays registered and no other
\* dispatch is affected.
C9_ExtractorErrorReply ==
    [][\A c \in Ids : \A i \in 1 .. Len(tasks[c]) :
          (tasks[c][i].pc = "ready" /\ tasks'[c][i].result = "callerr" /\ wpc[c] # "ended") =>
              /\ Len(queue'[c]) = Len(queue[c]) + 1
              /\ SubSeq(queue'[c], 1, Len(queue[c])) = queue[c]
              /\ queue'[c][Len(queue'[c])].m.type = "Text"
              /\ starts_with(queue'[c][Len(queue'[c])].m.data, "Error: ")
              /\ NotTornDown(c, i)]_vars

\* C10: once on_disconnect(c) has been invoked, no dispatch task for c is
\* spawned and no handler call for a message of c begins.
C10_NoDispatchAfterDisconnect ==
    [][\A c \in Ids :
          hooks[c].disconnects >= 1 =>
              /\ Len(tasks'[c]) = Len(tasks[c])
              /\ \A i \in 1 .. Len(tasks[c]) :
                    tasks[c][i].pc = "ready" => tasks'[c][i].pc = "ready"]_vars

\* C11 (as stated): count() is the number of connections strictly between
\* their connect event and their disconnect event (the two hooks).
C11_CountBetweenHooks ==
    count = Cardinality({c \in Ids : hooks[c].connects = 1 /\ hooks[c].disconnects = 0})

\* C11 (amended): count() is the number of connections that have been
\* inserted (the step before on_connect) and not yet removed (the step before
\* on_disconnect); it is never negative; a step of the runtime lowers it by at
\* most one, and remove of any id lowers it by exactly one when the id is
\* present and by zero when it is absent.
C11_CountInsertedNotRemoved ==
    /\ count = Cardinality({c \in Ids : sess[c] \in {"added", "running"}})
    /\ count >= 0
    /\ \A c \in Ids :
          Cardinality(remove(registry, c)) = count - (IF c \in registry THEN 1 ELSE 0)
    /\ \A c \in Ids : ENABLED Remove(c) =>
          (c \in registry /\ ENABLED (Remove(c) /\ Cardinality(registry') = count - 1))

\* C11 witness: two connections were counted and one of them has been removed
C11_Witness ==
    \E c, d \in Ids :
        /\ c # d
        /\ sess[c] \in {"removed", "done"} /\ ~get(c)
        /\ sess[d] = "running" /\ get(d)
        /\ count = 1

\* C12: in broadcast an enqueue failure on one recipient does not stop the
\* iteration. The failing step changes neither the registry nor any queue and
\* leaves every recipient not yet visited pending; when the broadcast returns
\* after a failure, every connection registered from its start to its end
\* whose write task is alive has been given the message; and a broadcast that
\* has seen a failure and visited everyone can return.
C12_FailureDoesNotStop ==
    [][/\ \A c \in Ids :
             (bc.pc = "running" /\ bc'.pc = "running" /\ bc.res[c] = "none"
                /\ bc'.res[c] = "failed")
                => /\ bc'.pending = bc.pending \ {c}
                   /\ registry' = registry
                   /\ queue' = queue
       /\ (bc.pc = "running" /\ bc'.pc = "idle" /\ \E c \in Ids : bc.res[c] = "failed")
             => \A d \in bc.start \cap registry : wpc[d] # "ended" => bc.res[d] = "ok"
       /\ (bc'.pc = "running" /\ bc'.pending = {} /\ \E c \in Ids : bc'.res[c] = "failed")
             => (ENABLED BroadcastEnd)']_vars

\* C12 witness: the broadcast is complete; it met a recipient whose write task
\* had ended and still reached the other one, and both are still registered
C12_Witness ==
    /\ bc.pc = "running" /\ bc.pending = {}
    /\ \E c, d \in Ids :
          /\ bc.res[c] = "failed" /\ bc.res[d] = "ok"
          /\ get(c) /\ get(d)

\* number of entries of a sequence that were produced by src
CopiesFrom(seq, src) == Cardinality({i \in 1 .. Len(seq) : seq[i].src = src})

\* the entry a targeted broadcast appends to c's queue
TargetedEntry(c, m, src) == [m |-> m, src |-> src, n |-> nsent[c] + 1]

\* C13 (as stated): broadcast_except(id, m) enqueues exactly one copy of m on
\* every registered connection other than id, and nothing on id.
C13_ExceptReachesAllOthers ==
    [][(bc.pc = "except" /\ bc'.pc = "idle") =>
          /\ \A c \in (bc.start \cap registry) \ {bc.x} : bc.res[c] = "ok"
          /\ bc.res[bc.x] \notin {"ok", "failed"}]_vars

\* C13 (amended): broadcast_except(id, m) offers m once to every connection
\* other than id that is registered from the start to the end of the call; the
\* copy is enqueued at the tail, exactly once, when that connection's write
\* task has not ended, and otherwise the failed send is logged and nothing is
\* enqueued. Nothing is ever enqueued on id, and no connection holds two
\* copies.
C13_ExceptOthersOnce ==
    [][/\ (bc.pc = "except" /\ bc'.pc = "idle") =>
             /\ \A c \in (bc.start \cap registry) \ {bc.x} : bc.res[c] \in {"ok", "failed"}
             /\ bc.res[bc.x] \notin {"ok", "failed"}
       /\ (bc.pc = "except" /\ bc'.pc = "except") =>
             \A c \in Ids :
                /\ (bc.res[c] = "none" /\ bc'.res[c] = "ok") =>
                      /\ c # bc.x /\ wpc[c] # "ended"
                      /\ queue'[c] = Append(queue[c],
                            TargetedEntry(c, Text(<<"h", "i">>), <<"except", bc.k>>))
                /\ (bc.res[c] = "none" /\ bc'.res[c] = "failed") =>
                      c # bc.x /\ wpc[c] = "ended" /\ queue'[c] = queue[c]
                /\ (bc' # bc /\ bc'.res[c] = bc.res[c]) => queue'[c] = queue[c]
       /\ bc'.pc = "except" =>
             /\ CopiesFrom(wire'[bc'.x] \o queue'[bc'.x], <<"except", bc'.k>>) = 0
             /\ wcur'[bc'.x] # NoMsg => wcur'[bc'.x].src # <<"except", bc'.k>>
             /\ \A c \in Ids : CopiesFrom(wire'[c] \o queue'[c], <<"except", bc'.k>>)
                                 + (IF wcur'[c] # NoMsg /\ wcur'[c].src = <<"except", bc'.k>>
                                    THEN 1 ELSE 0) <= 1]_vars

\* C13 witness: A and B are connected, the text is broadcast except to A: B
\* has it on the wire, A was passed over and has nothing
C13_Witness ==
    \E a, b \in Ids :
        /\ a # b /\ get(a) /\ get(b)
        /\ bc.pc = "except" /\ bc.x = a /\ bc.pending = {}
        /\ bc.res[a] = "skipped" /\ bc.res[b] = "ok"
        /\ CopiesFrom(wire[b], <<"except", bc.k>>) = 1
        /\ All(a) = <<>>

\* C14: broadcast_to(ids, m) enqueues m only on connections whose id is
\* listed and registered at the time it is looked up. Every step of the call
\* leaves the registry as it is; a listed id that is not registered is passed
\* over with no effect at all; the only queue a step can change is that of the
\* id it has just looked up; and an entry of the call appears on a queue only
\* by such a step.
C14_OnlyListedRegistered ==
    [][/\ (bc.pc = "to" /\ bc' # bc) =>
             /\ registry' = registry
             /\ bc.ids # <<>> =>
                   /\ \A c \in Ids \ {Head(bc.ids)} : queue'[c] = queue[c]
                   /\ ~get(Head(bc.ids)) =>
                         /\ queue' = queue
                         /\ bc'.pc = "to" /\ bc'.ids = Tail(bc.ids)
                   /\ (get(Head(bc.ids)) /\ wpc[Head(bc.ids)] # "ended") =>
                         queue'[Head(bc.ids)] = Append(queue[Head(bc.ids)],
                             TargetedEntry(Head(bc.ids), Text(<<"v">>), <<"to", bc.k>>))
       /\ \A c \in Ids, k \in 1 .. MaxTargeted :
             CopiesFrom(queue'[c], <<"to", k>>) > CopiesFrom(queue[c], <<"to", k>>) =>
                 /\ bc.pc = "to" /\ bc.k = k
                 /\ bc.ids # <<>> /\ Head(bc.ids) = c
                 /\ get(c)]_vars

\* C14 witness: a call whose slice named an id that is not registered and one
\* that is has returned its last id; the unknown id was passed over, the
\* registered one has the message, and the connection that was not listed
\* has nothing
C14_Witness ==
    \E c, d \in Ids :
        /\ c # d
        /\ bc.pc = "to" /\ bc.ids = <<>>
        /\ bc.res \in {<<"absent", "ok">>, <<"ok", "absent">>}
        /\ CopiesFrom(All(c), <<"to", bc.k>>) = 1
        /\ get(d) /\ All(d) = <<>>

\* the events M1..Mn log before the handler, and Mn..M1 after it
PreOrder(n) == [i \in 1 .. n |-> <<"pre", i>>]
PostOrder(n) == [i \in 1 .. n |-> <<"post", n + 1 - i>>]

\* C15: with middlewares M1..Mn registered in that order, each calling next,
\* and a terminal handler, an execution of the chain runs the work on the
\* message of M1, M2, ..., Mn in that order, then the handler exactly once,
\* then the work on the response of Mn, ..., M1; the value returned is the
\* handler's response as marked by Mn first and M1 last.
C15_ChainOrder ==
    (/\ mw.pc = "done"
     /\ mw.handler
     /\ \A i \in 1 .. Len(mw.middlewares) : mw.middlewares[i].kind = "wrap")
    => LET n == Len(mw.middlewares)
       IN  /\ mw.log = PreOrder(n) \o <<<<"handler">>>> \o PostOrder(n)
           /\ mw.resp = <<"h">> \o [i \in 1 .. n |-> n + 1 - i]

\* C15 witness: a chain of at least two wrapping middlewares and a handler
\* has been executed to its end
C15_Witness ==
    /\ mw.pc = "done"
    /\ mw.handler
    /\ Len(mw.middlewares) >= 2
    /\ \A i \in 1 .. Len(mw.middlewares) : mw.middlewares[i].kind = "wrap"

\* C16: a 200 response is produced only if the file that was read lies
\* canonically under the configured root, and a request whose target is not
\* canonically under the root is answered with 404.
C16_ReadUnderRoot ==
    (io # NoMsg /\ io.op = "http") =>
        /\ io.status = 200 => path_starts_with(io.read, StaticRoot)
        /\ (Len(io.line) >= 2 /\ io.line[1] \in {"GET", "HEAD"}
              /\ io.target.ok /\ ~path_starts_with(io.target.p, StaticRoot))
              => io.status = 404

\* C16 witness: a GET whose path climbs out of the root with ".." segments
\* to an existing file outside it was answered with 404
C16_Witness ==
    /\ io # NoMsg /\ io.op = "http"
    /\ io.line = <<"GET", UrlPath(<<"..", "s">>), <<"HTTP/1.1">> >>
    /\ io.target = [ok |-> TRUE, p |-> <<"s">>]
    /\ io.status = 404

\* C17: a request line whose method is not GET or HEAD, or that cannot be
\* parsed, is answered with 404 and never with 200.
C17_OtherMethods404 ==
    (io # NoMsg /\ io.op = "http"
       /\ ~(Len(io.line) >= 2 /\ io.line[1] \in {"GET", "HEAD"}))
        => io.status = 404

\* C17 witness: a POST has been answered
C17_Witness ==
    /\ io # NoMsg /\ io.op = "http"
    /\ Len(io.line) >= 2 /\ io.line[1] = "POST"

\* a token in lower case
Lower(t) ==
    CASE t \in {"Upgrade", "upgrade", "UPGRADE"} -> "upgrade"
      [] t \in {"websocket", "WebSocket", "WEBSOCKET"} -> "websocket"
      [] t = "GET" -> "get"
      [] OTHER -> t

\* C18: an accepted connection goes to the WebSocket handshake if and only if
\* the peeked bytes contain "Upgrade: websocket" in any letter case.
C18_UpgradeAnyCase ==
    (io # NoMsg /\ io.op = "accept" /\ io.peek = "ok") =>
        (io.route = "websocket"
            <=> contains([j \in 1 .. Len(io.header) |-> Lower(io.header[j])],
                         <<"upgrade", ": ", "websocket">>))

\* C18 witness: a request whose header reads "UPGRADE: WEBSOCKET" was accepted
\* and a branch was taken for it
C18_Witness ==
    /\ io # NoMsg /\ io.op = "accept"
    /\ io.peek = "ok"
    /\ io.header = <<"UPGRADE", ": ", "WEBSOCKET">>

\* the observations of an AppState that one type gives
View(data, T) == <<state_get(data, T), state_contains(data, T)>>

\* C19: after insert under T, get<T> is the value inserted, and len grows only
\* if T was absent; after remove<T>, T is absent; after clear, every type is
\* absent; whatever lies between leaves get<T> as it was, so get<T> is the
\* latest value inserted since the last remove<T> or clear. Insert and remove
\* under T leave get and contains of every other type as they were.
C19_TypeIdentity ==
    [][ LET d == state.data
            e == state'.data
            c == state'.call
        IN  /\ (state' # state /\ c.op = "insert") =>
                /\ View(e, c.type) = <<c.arc, TRUE>>
                /\ \A U \in TypeIds \ {c.type} : View(e, U) = View(d, U)
                /\ state_len(e) = IF state_contains(d, c.type)
                                      THEN state_len(d) ELSE state_len(d) + 1
            /\ (state' # state /\ c.op = "remove") =>
                /\ View(e, c.type) = <<None, FALSE>>
                /\ c.ret = state_get(d, c.type)
                /\ \A U \in TypeIds \ {c.type} : View(e, U) = View(d, U)
            /\ (state' # state /\ c.op = "clear") =>
                /\ \A U \in TypeIds : View(e, U) = <<None, FALSE>>
                /\ state_len(e) = 0
            /\ (state' # state /\ c.op = "get") =>
                /\ c.ret = state_get(d, c.type)
                /\ \A U \in TypeIds : View(e, U) = View(d, U)
      ]_vars

\* C19 witness: a value stored under a type that already held another value,
\* beside a value of another type
C19_Witness ==
    /\ state.call.op = "insert"
    /\ state.call.type = "ChatRoom"
    /\ state_get(state.data, "ChatRoom") = <<"Arc", "q">>
    /\ state_get(state.data, "ConnectionManager") = <<"Arc", "p">>
    /\ state_len(state.data) = 2

\* C20: once listen has started, a handler parameter State<Arc<ConnectionManager>>
\* is extracted successfully in every dispatch and yields the registry in
\* which the session runtime registers connections.
C20_StateArcManager ==
    (state.listening /\ state.call.op = "extract"
        /\ state.call.type = "Arc<ConnectionManager>") =>
        state.call.ret = OwnManager

\* C20 witness: the application installed a manager of its own with
\* with_state, listen ran, and a handler asked for State<Arc<ConnectionManager>>
C20_Witness ==
    /\ state.listening
    /\ state.call.op = "extract"
    /\ state.call.type = "Arc<ConnectionManager>"
    /\ state.call.ret = None
    /\ state_get(state.data, "ConnectionManager") = OwnManager
    /\ state_contains(state.data, "ChatRoom")

\* the handshakes that were given an id
Named == {h \in 1 .. MaxHs : hs[h].pc = "named"}

\* C21: no two handshakes, on whichever router, are given the same id; every
\* id is conn_<N> with N a value of the process-wide counter; the values given
\* out so far are exactly 0 .. counter-1, so the first is conn_0; and the
\* counter never decreases.
C21_UniqueIds ==
    /\ [](/\ \A g, h \in Named : g # h => hs[g].id # hs[h].id
          /\ \A h \in Named : hs[h].id = <<"c", "o", "n", "n", "_">> \o Decimal(hs[h].n)
          /\ {hs[h].n : h \in Named} = 0 .. (counter - 1)
          /\ (Cardinality(Named) = 1) =>
                \A h \in Named : hs[h].id = <<"c", "o", "n", "n", "_", "0">>)
    /\ [][counter' >= counter]_vars

\* C21 witness: handshakes on two different routers were each given an id
\* while a third was still in progress
C21_Witness ==
    /\ \E g, h \in Named : hs[g].router = "r1" /\ hs[h].router = "r2"
    /\ \E h \in 1 .. MaxHs : hs[h].pc = "accepted"

\* C22: a Message of type Text, Binary, Ping or Pong with any payload, or of
\* type Close with empty payload, converted to the framing library's message
\* and back has the same type and the same payload bytes.
C22_WireRoundTrip ==
    (/\ io # NoMsg
     /\ io.op = "wire"
     /\ io.m.type = "Close" => io.m.data = <<>>) =>
        io.back = io.m

\* C22 witness: a Text message whose payload is not well-formed UTF-8 went
\* through both conversions
C22_Witness ==
    /\ io # NoMsg
    /\ io.op = "wire"
    /\ io.m = Text(<<"a", "FF">>)
    /\ io.back = Text(<<"a", "FFFD">>)

\* the runtime of c has left select! and gone on to deregistration
Deregistering(c) == sess[c] \in {"removed", "done"}

\* C23: once one loop of a session has ended and the runtime has gone on to
\* deregistration, the other loop reads no further frame, hands nothing more
\* to dispatch and writes nothing more to the wire.
C23_SurvivorCancelled ==
    [][\A c \in Ids :
          Deregistering(c) =>
              /\ Len(tasks'[c]) = Len(tasks[c])
              /\ wire'[c] = wire[c]]_vars

\* C23 witness: the read loop ended first, the connection was deregistered and
\* on_disconnect ran, and the write loop holds a message it is about to write
C23_Witness ==
    \E c \in Ids :
        /\ sess[c] = "done"
        /\ rpc[c] = "ended"
        /\ wpc[c] = "write"

\* C24: when on_disconnect(c) is invoked, every message that was on c's queue
\* when the read loop ended has been handed to the socket by the write loop,
\* or the write loop has ended.
C24_DisconnectAfterDrain ==
    [][\A c \in Ids :
          hooks'[c].disconnects > hooks[c].disconnects =>
              \/ wpc[c] = "ended"
              \/ \A j \in 1 .. Len(queue[c]) : queue[c][j].n > hooks[c].endsent]_vars

\* C24 witness: on_disconnect has run while a message that was queued before
\* the read loop ended is still waiting on the queue of a live write loop
C24_Witness ==
    \E c \in Ids :
        /\ sess[c] = "done"
        /\ wpc[c] = "recv"
        /\ queue[c] # <<>>
        /\ queue[c][1].n <= hooks[c].endsent

\* C25: on_connect(c) has returned before the read loop of c exists and
\* before any inbound message of c is handed to dispatch, so no handler for c
\* runs before or during on_connect(c).
C25_ConnectBeforeDispatch ==
    \A c \in Ids :
        (rpc[c] # "idle" \/ Len(tasks[c]) > 0) => hooks[c].connects = 1

\* C25 witness: a handler for a message of c is running
C25_Witness ==
    \E c \in Ids :
        /\ Len(tasks[c]) > 0
        /\ tasks[c][1].pc = "running"
        /\ hooks[c].connects = 1

\* handle_message of task i of c has reached the handler, or ended without one
Started(c, i) == tasks[c][i].pc \in {"running", "done"}

\* C26: for two inbound messages of one connection, the handler invocation
\* for the one read first starts before the handler invocation for the other.
C26_HandlersStartInReadOrder ==
    \A c \in Ids : \A i, j \in 1 .. Len(tasks[c]) :
        (i < j /\ tasks[c][j].pc = "running") => Started(c, i)

\* C26 witness: the handler for the second message of c is running while the
\* dispatch task of the first has not yet looked the connection up
C26_Witness ==
    \E c \in Ids :
        /\ Len(tasks[c]) = 2
        /\ tasks[c][1].pc = "spawned"
        /\ tasks[c][2].pc = "running"

\* a handler for an earlier message of c is still running
HandlerRunning(c) == \E i \in 1 .. Len(tasks[c]) : tasks[c][i].pc = "running"

\* C27: while a handler for an earlier message of c is still running, the
\* read loop of c can take the next frame and hand it to dispatch, a Close
\* frame ends the read loop, and the runtime can then deregister c.
C27_ReadLoopNotBlocked ==
    \A c \in Ids :
        HandlerRunning(c) =>
            /\ (rpc[c] = "read" /\ nframes < MaxFrames) =>
                  \A w \in SocketFrames :
                      ENABLED (ReadNext(c, w)
                                 /\ (~is_close(w) => Len(tasks'[c]) = Len(tasks[c]) + 1))
            /\ rpc[c] = "read" =>
                  ENABLED (ReadNext(c, [kind |-> "Close", payload |-> None])
                             /\ rpc'[c] = "ended")
            /\ (rpc[c] = "ended" /\ sess[c] = "running") => ENABLED Remove(c)

\* C27 witness: the session of c has ended on a Close frame and a second
\* message was dispatched while the handler of the first is still running
C27_Witness ==
    \E c \in Ids :
        /\ Len(tasks[c]) = 2
        /\ tasks[c][1].pc = "running"
        /\ tasks[c][2].pc = "done"
        /\ sess[c] = "done"

\* C28: no dispatch task is ever given a Message of type Close, and once the
\* read loop of c has ended (on a Close frame or otherwise) no further frame
\* of c is handed to dispatch.
C28_CloseNeverDispatched ==
    /\ [](\A c \in Ids : \A i \in 1 .. Len(tasks[c]) : tasks[c][i].msg.type # "Close")
    /\ [][\A c \in Ids : rpc[c] = "ended" => tasks'[c] = tasks[c] \/
              (Len(tasks'[c]) = Len(tasks[c]) /\ rpc'[c] = "ended")]_vars

\* C28 witness: the read loop of c ended after one frame had been dispatched,
\* while the bound would still have allowed another frame
C28_Witness ==
    \E c \in Ids :
        /\ rpc[c] = "ended"
        /\ Len(tasks[c]) = 1
        /\ nframes < MaxFrames

\* C29: the router's dispatch runs the middleware chain with the selected
\* handler as terminal handler, so at the moment a handler starts for a
\* dispatched message every registered middleware has observed a message.
C29_MiddlewareBeforeHandler ==
    [][\A c \in Ids : \A i \in 1 .. Len(tasks[c]) :
          (tasks[c][i].pc = "ready" /\ tasks'[c][i].pc = "running") =>
              \A k \in 1 .. Len(mw.middlewares) :
                  \E j \in 1 .. Len(mw.log) :
                      mw.log[j] = <<"pre", mw.middlewares[k].id>>]_vars

\* C29 witness: a handler runs for a dispatched message while the chain with
\* its registered middleware has never been executed
C29_Witness ==
    /\ \E c \in Ids : \E i \in 1 .. Len(tasks[c]) : tasks[c][i].pc = "running"
    /\ Len(mw.middlewares) = MaxMw
    /\ mw.pc = "build"
    /\ mw.log = <<>>

\* C30: a dispatch task that starts when its connection id is not in the
\* registry ends at once with ConnectionNotFound: no handler is selected or
\* called, no extractor runs, no queue and no part of the registry changes.
C30_AbortWhenNotRegistered ==
    [][\A c \in Ids : \A i \in 1 .. Len(tasks[c]) :
          (tasks[c][i].pc = "spawned" /\ tasks'[c][i].pc # "spawned" /\ c \notin registry) =>
              /\ tasks'[c][i] = [tasks[c][i] EXCEPT !.pc = "done", !.result = "notfound"]
              /\ tasks'[c][i].handler = None
              /\ queue' = queue
              /\ nsent' = nsent
              /\ registry' = registry]_vars

\* C30 witness: a dispatch task of a deregistered connection has ended with
\* ConnectionNotFound
C30_Witness ==
    \E c \in Ids : \E i \in 1 .. Len(tasks[c]) :
        /\ tasks[c][i].result = "notfound"
        /\ c \notin registry

C32_ReplyOnOriginOnly ==
    [][\A c \in Ids : \A i \in 1 .. Len(tasks[c]) :
          LET resp == call(tasks[c][i].beh, tasks[c][i].msg).resp
          IN  (tasks[c][i].pc = "running" /\ tasks'[c][i].pc = "done" /\ resp # NoMsg) =>
                /\ \A d \in Ids \ {c} : queue'[d] = queue[d]
                /\ IF wpc[c] # "ended"
                   THEN /\ Len(queue'[c]) = Len(queue[c]) + 1
                        /\ SubSeq(queue'[c], 1, Len(queue[c])) = queue[c]
                        /\ queue'[c][Len(queue'[c])].m = resp
                        /\ tasks'[c][i].result = "replied"
                   ELSE /\ queue'[c] = queue[c]
                        /\ tasks'[c][i].result = "sendfail"
                /\ registry' = registry
                /\ sess' = sess
                /\ wpc' = wpc
                /\ rpc' = rpc]_vars

\* C32 witness: the first reply of c was enqueued, its write failed, and the
\* second reply of c could not be enqueued, while another session is running
C32_Witness ==
    \E c, d \in Ids :
        /\ c # d
        /\ Len(tasks[c]) = 2
        /\ tasks[c][1].result = "replied"
        /\ tasks[c][2].result = "sendfail"
        /\ sess[d] = "running"
        /\ d \in registry

\* the peeked bytes hold the upgrade header in some letter case
UpgradePresent(h) ==
    contains([j \in 1 .. Len(h) |-> Lower(h[j])], <<"upgrade", ": ", "websocket">>)

\* C33: every accepted TCP connection takes exactly one path: closed when the
\* peek fails or times out; the WebSocket handshake when the upgrade header is
\* present, also with static serving configured; otherwise one HTTP response
\* when static serving is configured; otherwise closed with an error. The
\* listener itself changes neither the registry nor the hook counts.
C33_OnePath ==
    /\ [](io # NoMsg /\ io.op = "accept" =>
            io.route = (IF io.peek # "ok" THEN "closed"
                        ELSE IF UpgradePresent(io.header) THEN "websocket"
                        ELSE IF io.static THEN "http"
                        ELSE "closed"))
    /\ [][io' # io => (registry' = registry /\ hooks' = hooks /\ counter' = counter)]_vars

\* C33 witness: with static serving configured, a request whose upgrade
\* header is spelled "Upgrade: WebSocket" was answered as plain HTTP
C33_Witness ==
    /\ io # NoMsg /\ io.op = "accept"
    /\ io.peek = "ok"
    /\ io.header = <<"Upgrade", ": ", "WebSocket">>
    /\ io.static
    /\ io.route = "http"

\* C34: the set of registered ids changes only in the session runtime's add at
\* connect and remove at disconnect; steps of broadcast, broadcast_except,
\* broadcast_to (which looks ids up with get) and of message dispatch, whether
\* it succeeds or fails, leave it as it is, and count() follows it.
C34_RegistryFrame ==
    [][/\ registry' # registry =>
            \E c \in Ids :
                \/ sess[c] = "created" /\ sess'[c] = "added" /\ registry' = registry \cup {c}
                \/ sess[c] = "running" /\ sess'[c] = "removed" /\ registry' = registry \ {c}
       /\ (bc' # bc \/ tasks' # tasks \/ queue' # queue) =>
            (registry' = registry /\ count' = count)]_vars

\* C34 witness: a dispatch of a registered connection has failed in its
\* extractor and a producer's call has put a message on that connection's queue
C34_Witness ==
    \E c \in Ids :
        /\ c \in registry
        /\ Len(tasks[c]) = 1
        /\ tasks[c][1].result = "callerr"
        /\ nbcast = 1
        /\ bc.pc = "idle"
        /\ queue[c] # <<>>

\* the entry with ticket n is on c's queue; it is being written or was written
Queued(c, n) == \E j \in 1 .. Len(queue[c]) : queue[c][j].n = n
Attempted(c, n) ==
    \/ wpc[c] = "write" /\ wcur[c].n = n
    \/ \E j \in 1 .. Len(wire[c]) : wire[c][j].n = n

C36_NothingBeforeOnConnect ==
    \A c \in Ids : hooks[c].connects = 0 => (nsent[c] = 0 /\ queue[c] = <<>>)

\* C36 witness: c is registered and its on_connect hook has not been invoked
\* yet, while another session runs and a broadcast that will reach c is under
\* way
C36_Witness ==
    \E c \in Ids :
        /\ sess[c] = "added"
        /\ hooks[c].connects = 0
        /\ bc.pc = "running"
        /\ c \in bc.pending
        /\ \E d \in Ids \ {c} : sess[d] = "running"

\* C37: a handshake that fails takes no id from the counter, adds nothing to
\* the registry, fires neither hook and changes nothing of any session, its
\* queue or its socket; and the failed attempt holds no connection id.
C37_FailedHandshakeNoTrace ==
    /\ [](\A h \in 1 .. MaxHs : hs[h].pc = "failed" => hs[h].id = None)
    /\ [][(\E h \in 1 .. MaxHs : hs[h].pc = "idle" /\ hs'[h].pc = "failed") =>
             /\ counter' = counter
             /\ registry' = registry
             /\ hooks' = hooks
             /\ sess' = sess
             /\ queue' = queue
             /\ wire' = wire
             /\ wpc' = wpc
             /\ rpc' = rpc]_vars

\* C37 witness: a handshake has failed while the first session is running and
\* registered, and the second session has been given the next id
C37_Witness ==
    /\ \E h \in 1 .. MaxHs : hs[h].pc = "failed"
    /\ sess[0] = "running"
    /\ sess[1] = "created"
    /\ counter = 2
    /\ registry = {0}
    /\ hooks[0].connects = 1

\* the parameters whose extractor fails
Failing(o) == {k \in 1 .. Len(o) : o[k] # "ok"}
FirstFailing(o) == CHOOSE k \in Failing(o) : \A j \in Failing(o) : k <= j

\* C38: the extractors of a handler run in the order of its parameters, none
\* runs after one has failed, the call then returns the error of the first
\* failing one without invoking the handler body, and the body is invoked
\* exactly once when every extractor succeeded.
C38_ExtractorsInOrder ==
    (io # NoMsg /\ io.op = "call") =>
        /\ \A j \in 1 .. Len(io.ran) : io.ran[j] = j
        /\ \A j \in 1 .. (Len(io.ran) - 1) : io.outcomes[j] = "ok"
        /\ io.invoked <= 1
        /\ io.invoked = 1 => Failing(io.outcomes) = {}
        /\ io.pc = "done" =>
              IF Failing(io.outcomes) = {}
              THEN /\ io.invoked = 1
                   /\ Len(io.ran) = Len(io.outcomes)
                   /\ io.res \in BodyResults
              ELSE /\ io.invoked = 0
                   /\ Len(io.ran) = FirstFailing(io.outcomes)
                   /\ io.res = io.outcomes[FirstFailing(io.outcomes)]

\* C38 witness: a call with three parameters whose second and third extractor
\* fail has returned
C38_Witness ==
    /\ io # NoMsg
    /\ io.op = "call"
    /\ io.pc = "done"
    /\ io.outcomes = <<"ok", "json", "extractor">>
    /\ io.res = "json"

\* C39: a broadcast_except entered while the registry is empty does not panic
\* on the recipient count, it goes on to the iteration and returns.
C39_EmptyExceptCompletes ==
    (bc.pc \in {"except", "panicked"} /\ bc.start = {}) => bc.pc = "except"

\* C39 witness: a broadcast_except entered on an empty registry has passed
\* the recipient count and finished its iteration with nothing enqueued
C39_Witness ==
    /\ bc.pc = "except"
    /\ bc.start = {}
    /\ bc.pending = {}
    /\ \A c \in Ids : queue[c] = <<>> /\ nsent[c] = 0

\* the map that handle h reads and writes
StoreOf(h) == io.stores[io.handles[h]]

\* C40: all handles cloned from one AppState observe the same store: get,
\* contains and len agree on every pair of handles, and a value inserted, a
\* key removed or a clear made through one handle is observed through every
\* other handle.
C40_ClonesShareStore ==
    (io # NoMsg /\ io.op = "state") =>
        /\ \A g, h \in 1 .. Len(io.handles) :
              /\ state_len(StoreOf(g)) = state_len(StoreOf(h))
              /\ \A T \in TypeIds :
                    /\ state_get(StoreOf(g), T) = state_get(StoreOf(h), T)
                    /\ state_contains(StoreOf(g), T) = state_contains(StoreOf(h), T)
        /\ io.call.op = "insert" =>
              \A h \in 1 .. Len(io.handles) :
                  state_get(StoreOf(h), io.call.type) = io.call.arc
        /\ io.call.op = "remove" =>
              \A h \in 1 .. Len(io.handles) :
                  ~state_contains(StoreOf(h), io.call.type)
        /\ io.call.op = "clear" =>
              \A h \in 1 .. Len(io.handles) : state_len(StoreOf(h)) = 0

\* C40 witness: there are the handle and two clones of it, an AppConfig is
\* stored, and a ChatRoom just stored through the second handle is read
\* through the first and counted by it
C40_Witness ==
    /\ io # NoMsg
    /\ io.op = "state"
    /\ Len(io.handles) = MaxHandles
    /\ io.call.op = "insert"
    /\ io.call.h = 2
    /\ io.call.type = "ChatRoom"
    /\ state_get(StoreOf(1), "ChatRoom") = <<"Arc", "q">>
    /\ state_get(StoreOf(3), "AppConfig") = <<"Arc", "p">>
    /\ state_len(StoreOf(1)) = 2

====
